---- MODULE Spec2Model ----
(***************************************************************************)
(* X4FProjector: the layered archive filesystem (CatFileLoader) and the    *)
(* bounded region reader (DatGameFile) of src/file_loaders.py.             *)
(*                                                                         *)
(* A game path is a sequence of segments (the text between '/'); an empty  *)
(* segment stands for a doubled, leading or trailing slash.  An index      *)
(* (.cat) file is a sequence of lines; a numbered pair NN.cat/NN.dat of a  *)
(* directory is named <<directory, NN>>.                                   *)
(***************************************************************************)
EXTENDS Integers, Sequences, FiniteSets, TLC

VARIABLES
    disk,        \* directory -> sequence of index files (pair 01 first)
    file_tree,   \* filesystem -> (path -> node): CatFileLoader.file_tree
    inserted,    \* filesystem -> the paths of its tree in the order of insertion
    data_files,  \* filesystem -> stack of pairs: CatFileLoader.data_files
    loaded,      \* filesystem -> set of loaded pairs: CatFileLoader.loaded
    popped,      \* filesystem -> the pairs popped from its stack so far
    loads,       \* the _load_cat_file calls of the last operation, in order
    gen,         \* the generator the last call of list_files returned
    res,         \* the last filesystem operation and what it returned
    blob_len,    \* handle -> length of the underlying .dat blob
    dat_pos,     \* handle -> position of the underlying handle (dat_file.tell())
    closed,      \* handle -> TRUE once the underlying handle is closed
    reader,      \* reader -> [dat_file, start, end]: DatGameFile members
    pc,          \* reader -> "idle", or "readall" inside readall's loop
    ra,          \* reader -> readall's locals [size, buf]
    total,       \* reader -> bytes returned since the reader was at position 0
    io,          \* the last reader operation and what it returned
    docs,        \* path -> the xml document of the file, for the files that exist
    floader,     \* the class of MacroDB.floader: "cat" or "fs"
    macros,      \* name -> [type, connections, properties]: MacroDB.macros
    macros_by_type,  \* type -> list of names: MacroDB.macros_by_type
    dependencies,    \* set of names: MacroDB.dependencies
    db_pc,       \* "idle", or "resolving" inside resolve_dependencies' loop
    db_res,      \* the last MacroDB operation and what it returned
    lang_trees,  \* language name -> tree: LanguageResolver.lang_trees
    default_lang,    \* LanguageResolver.default_lang ("None" until one is set)
    lg_pc,       \* "idle", or "resolving" inside resolve_string's loop
    rs,          \* the arguments and locals of the running resolve_string
    lg_res       \* the last LanguageResolver operation and what it returned

fsVars == <<disk, file_tree, inserted, data_files, loaded, popped, loads, gen, res>>
rdVars == <<blob_len, dat_pos, closed, reader, pc, ra, total, io>>
dbVars == <<docs, floader, macros, macros_by_type, dependencies, db_pc, db_res>>
lgVars == <<lang_trees, default_lang, lg_pc, rs, lg_res>>
vars == <<disk, file_tree, inserted, data_files, loaded, popped, loads, gen, res,
          blob_len, dat_pos, closed, reader, pc, ra, total, io,
          docs, floader, macros, macros_by_type, dependencies, db_pc, db_res,
          lang_trees, default_lang, lg_pc, rs, lg_res>>

----------------------------------------------------------------------------
(* Bounds of the model *)

\* numbered pairs in the game root
MaxPairs == 2
\* lines of one index file
MaxLines == 2
\* length of the stack of the base filesystem (bounds repeated scans)
MaxStack == 3
\* numbered pairs and lines per index file in an overlay directory
MaxExtPairs == 1
MaxExtLines == 1
\* lines of the index file whose offsets are checked
MaxCatLines == 3
\* length of a .dat blob
MaxBlob == 4
\* offset and size of a game file inside its blob
MaxOffset == 2
MaxSize == 3
\* arguments of read (from -1) and of seek (from -MaxArg)
MaxArg == 4
MaxLoaded == 2
\* length of a text up to which the loop of resolve_string is followed
MaxText == 40
MaxReaders == 2

----------------------------------------------------------------------------
(* Paths and index lines *)

\* the value x under the name a local variable gives it: F(x) with x
\* computed once
With(x, F(_)) == CHOOSE r \in {F(v) : v \in {x}} : TRUE

Lower(s) ==
    CASE s = "A" -> "a" [] s = "B" -> "b" [] s = "M" -> "m"
      [] s = "EXTENSIONS" -> "extensions" [] OTHER -> s

\* a variant that takes the path as given
LowerPath_given(path) == path

LowerPath(path) == [i \in DOMAIN path |-> Lower(path[i])]

split_game_path(path) == SelectSeq(path, LAMBDA p : p # "")

Front(s) == SubSeq(s, 1, Len(s) - 1)

Last(s) == s[Len(s)]

\* a line 'path size timestamp hash'; fields < 4 when rsplit(' ', 3) yields
\* fewer than four parts, numeric = FALSE when int(parts[1]) raises
Line(path, size) == [fields |-> 4, numeric |-> TRUE, path |-> path, size |-> size]
ShortLine == [fields |-> 1, numeric |-> TRUE, path |-> <<"">>, size |-> 0]
NanLine(path) == [fields |-> 4, numeric |-> FALSE, path |-> path, size |-> 0]

SeqsUpTo(S, n) == UNION {[1..k -> S] : k \in 0..n}

\* the bytes the lines of an index file declare
RECURSIVE Bytes(_, _)
Bytes(lines, n) == IF n = 0 THEN 0 ELSE lines[n].size + Bytes(lines, n - 1)

\* the index files r of the game root and e of the overlay directory, each
\* with a .dat file; those of the game root hold short bytes less than their
\* index files declare
Archive(r, e, short) ==
    [root |-> r, ext |-> e,
     dat |-> [root |-> [i \in DOMAIN r |-> Bytes(r[i], Len(r[i])) - short],
              ext |-> [i \in DOMAIN e |-> Bytes(e[i], Len(e[i]))]]]

----------------------------------------------------------------------------
(* Nodes of the directory tree *)

NoPath == <<"none", 0>>

DirNode == [kind |-> "dir", dat_path |-> NoPath, name |-> "", size |-> 0, offset |-> 0]

CatEntry(dat_path, name, size, offset) ==
    [kind |-> "file", dat_path |-> dat_path, name |-> name, size |-> size, offset |-> offset]

\* a CatFileLoader mounted as a child
Mounted(fs) == [kind |-> "fs", dat_path |-> NoPath, name |-> fs, size |-> 0, offset |-> 0]

NoNode == [kind |-> "none", dat_path |-> NoPath, name |-> "", size |-> 0, offset |-> 0]

\* the node at path k of tree t; the root is a DirNode
NodeAt(t, k) == IF k = <<>> THEN DirNode ELSE IF k \in DOMAIN t THEN t[k] ELSE NoNode

----------------------------------------------------------------------------
(* CatFileLoader._load_cat_file *)

\* parse_cat with the size of a skipped line left out of the running offset
RECURSIVE parse_cat_skip(_, _, _, _, _)
parse_cat_skip(lines, dat_path, line_no, file_offset, entries) ==
    IF line_no > Len(lines) THEN [ret |-> "ok", entries |-> entries]
    ELSE LET line == lines[line_no] IN
         IF line.fields # 4 THEN [ret |-> "false", entries |-> <<>>]
         ELSE IF ~line.numeric THEN [ret |-> "ValueError", entries |-> <<>>]
         ELSE LET game_path == split_game_path(LowerPath(line.path)) IN
              IF game_path = <<>>
              THEN parse_cat_skip(lines, dat_path, line_no + 1, file_offset, entries)
              ELSE parse_cat_skip(lines, dat_path, line_no + 1, file_offset + line.size,
                                  Append(entries,
                                         [game_path |-> Front(game_path),
                                          entry |-> CatEntry(dat_path, Last(game_path),
                                                             line.size, file_offset)]))

\* first block: parse the lines into entries; ret is "ok", "false" (a line
\* without 4 fields) or "ValueError" (int() of the size field raises)
RECURSIVE parse_cat(_, _, _, _, _)
parse_cat(lines, dat_path, line_no, file_offset, entries) ==
    IF line_no > Len(lines) THEN [ret |-> "ok", entries |-> entries]
    ELSE LET line == lines[line_no] IN
         IF line.fields # 4 THEN [ret |-> "false", entries |-> <<>>]
         ELSE IF ~line.numeric THEN [ret |-> "ValueError", entries |-> <<>>]
         ELSE LET game_path == split_game_path(LowerPath(line.path))
                  size == line.size
                  offset == file_offset
              IN IF game_path = <<>>
                 THEN parse_cat(lines, dat_path, line_no + 1, file_offset + size, entries)
                 ELSE parse_cat(lines, dat_path, line_no + 1, file_offset + size,
                                Append(entries,
                                       [game_path |-> Front(game_path),
                                        entry |-> CatEntry(dat_path, Last(game_path), size, offset)]))

\* k.children exists only on a DirNode
IsDirAt(t, k) == NodeAt(t, k).kind = "dir"

\* the loop over the directories of one entry: a missing directory is
\* created, an existing child is entered whatever it is; reading .children
\* of a CatEntry or of a mounted CatFileLoader raises AttributeError
RECURSIVE walk_dirs(_, _, _)
walk_dirs(t, game_path, n) ==
    IF n > Len(game_path) THEN [exc |-> FALSE, tree |-> t]
    ELSE IF ~IsDirAt(t, SubSeq(game_path, 1, n - 1)) THEN [exc |-> TRUE, tree |-> t]
    ELSE LET c == SubSeq(game_path, 1, n) IN
         walk_dirs(IF c \in DOMAIN t THEN t ELSE t @@ (c :> DirNode), game_path, n + 1)

\* put_entry without the 'not in' test: the entry replaces an existing child
put_entry_overwrite(w, e) ==
    LET full == Append(e.game_path, e.entry.name) IN
    IF w.exc \/ ~IsDirAt(w.tree, e.game_path) THEN [exc |-> TRUE, tree |-> w.tree]
    ELSE [exc |-> FALSE, tree |-> (full :> e.entry) @@ w.tree]

\* 'if entry.name not in k.children: k.children[entry.name] = entry', w the
\* result of the walk to k
put_entry(w, e) ==
    LET full == Append(e.game_path, e.entry.name) IN
    IF w.exc \/ ~IsDirAt(w.tree, e.game_path) THEN [exc |-> TRUE, tree |-> w.tree]
    ELSE [exc |-> FALSE,
          tree |-> IF full \in DOMAIN w.tree THEN w.tree ELSE w.tree @@ (full :> e.entry)]

\* one iteration of the loop that adds the entries to the file tree
add_entry(t, e) == put_entry(walk_dirs(t, e.game_path, 1), e)

\* the loop: an exception leaves it with the entries added so far
RECURSIVE add_entries(_, _, _)
RECURSIVE next_entry(_, _, _)
next_entry(r, entries, i) == IF r.exc THEN r ELSE add_entries(r.tree, entries, i + 1)

add_entries(t, entries, i) ==
    IF i > Len(entries) THEN [exc |-> FALSE, tree |-> t]
    ELSE next_entry(add_entry(t, entries[i]), entries, i)

\* the paths the loop names, entry by entry: the directories of the entry
\* from the root down, then the entry itself
Named(e) ==
    [n \in 1..(Len(e.game_path) + 1) |->
        IF n <= Len(e.game_path) THEN SubSeq(e.game_path, 1, n)
        ELSE Append(e.game_path, e.entry.name)]

RECURSIVE AllNamed(_, _)
AllNamed(entries, i) ==
    IF i > Len(entries) THEN <<>> ELSE Named(entries[i]) \o AllNamed(entries, i + 1)

\* the paths of the set added in the order the loop inserted them into the
\* children dicts: each where names first has it
RECURSIVE FirstNamed(_, _, _)
FirstNamed(names, added, i) ==
    IF i > Len(names) THEN <<>>
    ELSE IF names[i] \in added
    THEN <<names[i]>> \o FirstNamed(names, added \ {names[i]}, i + 1)
    ELSE FirstNamed(names, added, i + 1)

\* the end of _load_cat_file: p the result of the parse, r of the loop.  The
\* call is appended to w.loads with its result, the paths it added to the
\* tree, the stack it left and the pairs popped before it
end_load(w, fs, pair, p, r) ==
    LET t == w.file_tree[fs]
        ret == IF p.ret # "ok" THEN p.ret ELSE IF r.exc THEN "AttributeError" ELSE "ok"
        call == [fs |-> fs, pair |-> pair, ret |-> ret,
                 added |-> DOMAIN r.tree \ DOMAIN t, stack |-> w.data_files[fs],
                 popped |-> w.popped[fs]]
    IN [ret |-> ret,
        w |-> [w EXCEPT !.file_tree[fs] = r.tree,
                        !.inserted[fs] = @ \o FirstNamed(AllNamed(p.entries, 1),
                                                    DOMAIN r.tree \ DOMAIN t, 1),
                        !.loaded[fs] = IF ret = "ok" THEN @ \cup {pair} ELSE @,
                        !.loads = Append(@, call)]]

\* the second block runs only when the parse returned no failure
register(w, fs, pair, p) ==
    end_load(w, fs, pair, p,
             IF p.ret = "ok" THEN add_entries(w.file_tree[fs], p.entries, 1)
             ELSE [exc |-> FALSE, tree |-> w.file_tree[fs]])

\* w is the state of all filesystems while an operation runs
load_cat_file(w, fs, pair) ==
    register(w, fs, pair, parse_cat(disk[pair[1]][pair[2]], pair, 1, 0, <<>>))

----------------------------------------------------------------------------
(* CatFileLoader._load_next_cat_file *)

RECURSIVE load_next_cat_file(_, _)

\* loop_next without the loop: returns after the first pair popped
loop_next_once(r, fs) == [ret |-> IF r.ret = "ok" THEN "true" ELSE r.ret, w |-> r.w]

\* 'while self.data_files and not loaded', r the result for the pair popped
loop_next(r, fs) ==
    IF r.ret = "false" THEN load_next_cat_file(r.w, fs)
    ELSE [ret |-> IF r.ret = "ok" THEN "true" ELSE r.ret, w |-> r.w]

\* a pair already in self.loaded is dropped and loaded stays False
load_popped(w, fs, pair) ==
    loop_next(IF pair \in w.loaded[fs] THEN [ret |-> "false", w |-> w]
              ELSE load_cat_file(w, fs, pair),
              fs)

\* load_next_cat_file popping the lowest pair, the head of the list
load_next_cat_file_head(w, fs) ==
    IF w.data_files[fs] = <<>> THEN [ret |-> "false", w |-> w]
    ELSE load_popped([w EXCEPT !.data_files[fs] = Tail(@),
                               !.popped[fs] = @ \cup {Head(w.data_files[fs])}],
                     fs, Head(w.data_files[fs]))

\* ret is "true", "false" (the stack is empty) or the exception raised
load_next_cat_file(w, fs) ==
    IF w.data_files[fs] = <<>> THEN [ret |-> "false", w |-> w]
    ELSE load_popped([w EXCEPT !.data_files[fs] = Front(@),
                               !.popped[fs] = @ \cup {Last(w.data_files[fs])}],
                     fs, Last(w.data_files[fs]))

----------------------------------------------------------------------------
(* CatFileLoader._find_entry *)

RECURSIVE retry_load(_, _, _)

\* r the result of _load_next_cat_file
retry_after(r, fs, c) ==
    IF r.ret = "true" THEN retry_load(r.w, fs, c)
    ELSE IF r.ret = "false" THEN [ret |-> "missing", w |-> r.w]
    ELSE [ret |-> r.ret, w |-> r.w]

\* 'while not knext and self._load_next_cat_file()' for the child at path c
retry_load(w, fs, c) ==
    IF c \in DOMAIN w.file_tree[fs] THEN [ret |-> "found", w |-> w]
    ELSE retry_after(load_next_cat_file(w, fs), fs, c)

RECURSIVE find_entry(_, _, _, _)

\* 'if not knext: return None, None', else on to the next part
enter_child(r, fs, c, parts) ==
    IF r.ret = "found" THEN find_entry(r.w, fs, c, Tail(parts))
    ELSE [ret |-> r.ret, w |-> r.w, owner |-> fs, at |-> c, entry |-> NoNode]

\* the three isinstance cases for the node k
visit(w, fs, k, parts, node) ==
    IF node.kind = "file"
    THEN [ret |-> "notdir", w |-> w, owner |-> fs, at |-> k, entry |-> NoNode]
    ELSE IF node.kind = "fs"
    THEN find_entry(w, node.name, <<>>, parts)
    ELSE enter_child(retry_load(w, fs, Append(k, Head(parts))), fs,
                     Append(k, Head(parts)), parts)

\* k is the path of the current node in the tree of fs.  ret is "ok" (entry
\* is the node found, owner its filesystem), "notdir" (a CatEntry with parts
\* left), "missing" (no child for a part; owner and at tell where), or the
\* exception raised by a load
find_entry(w, fs, k, parts) ==
    IF parts = <<>>
    THEN [ret |-> "ok", w |-> w, owner |-> fs, at |-> k, entry |-> NodeAt(w.file_tree[fs], k)]
    ELSE visit(w, fs, k, parts, NodeAt(w.file_tree[fs], k))

----------------------------------------------------------------------------
(* Operations of the filesystem *)

Base == "base"

\* names an overlay is mounted under (load_extension's ext_name)
ExtNames == {"m"}

\* ext_name is used as given: a name with an upper-case letter
MountNames == ExtNames \cup {"M"}

FsIds == {Base} \cup MountNames

\* the directory of the game root and the directories of the overlays
RootDir == "root"
ExtDirs == {"ext"}

EmptyTree == [k \in {} |-> DirNode]

\* the state the operations of one call work on
World == [file_tree |-> file_tree, inserted |-> inserted, data_files |-> data_files,
          loaded |-> loaded, popped |-> popped, loads |-> <<>>]

Commit(w) ==
    /\ file_tree' = w.file_tree
    /\ inserted' = w.inserted
    /\ data_files' = w.data_files
    /\ loaded' = w.loaded
    /\ popped' = w.popped
    /\ loads' = w.loads

Result(op, path, find, ret, owner, at, entry, listing) ==
    [op |-> op, path |-> path, find |-> find, ret |-> ret, owner |-> owner,
     at |-> at, entry |-> entry, listing |-> listing]

Raised(r) == r.ret \in {"AttributeError", "ValueError"}

\* the pairs 01..N of a directory, lowest first
PairsOf(dir) == [i \in 1..Len(disk[dir]) |-> <<dir, i>>]

load_from_game_root ==
    /\ Len(data_files[Base]) + Len(disk[RootDir]) <= MaxStack
    /\ data_files' = [data_files EXCEPT ![Base] = PairsOf(RootDir) \o @]
    /\ loads' = <<>>
    /\ res' = Result("load_from_game_root", <<>>, "none", "ok", Base, <<>>, NoNode, {})
    /\ UNCHANGED <<disk, file_tree, inserted, loaded, popped, gen>>

\* load_extension without the test for an existing child: the name is
\* mounted again
load_extension_again(ext_name, ext_dir) ==
    LET exts == <<"extensions">>
        t == file_tree[Base]
        t1 == IF exts \in DOMAIN t THEN t ELSE t @@ (exts :> DirNode)
        child == <<"extensions", ext_name>>
        ret == IF t1[exts].kind # "dir" THEN "AttributeError" ELSE "ok"
    IN /\ file_tree' = IF ret = "ok"
                       THEN [file_tree EXCEPT ![Base] = (child :> Mounted(ext_name)) @@ t1]
                       ELSE [file_tree EXCEPT ![Base] = t1]
       /\ inserted' = [inserted EXCEPT ![Base] =
                        @ \o (IF exts \in DOMAIN t THEN <<>> ELSE <<exts>>)
                          \o (IF ret = "ok" /\ child \notin DOMAIN t1 THEN <<child>> ELSE <<>>)]
       /\ data_files' = IF ret = "ok"
                        THEN [data_files EXCEPT ![ext_name] = PairsOf(ext_dir) \o @]
                        ELSE data_files
       /\ loads' = <<>>
       /\ res' = Result("load_extension", child, "none", ret, Base, child, NoNode, {})
       /\ UNCHANGED <<disk, loaded, popped, gen>>

\* 'extensions' is created when missing, also when the call then raises
load_extension(ext_name, ext_dir) ==
    LET exts == <<"extensions">>
        t == file_tree[Base]
        t1 == IF exts \in DOMAIN t THEN t ELSE t @@ (exts :> DirNode)
        child == <<"extensions", ext_name>>
        ret == IF t1[exts].kind # "dir" THEN "AttributeError"
               ELSE IF child \in DOMAIN t1 THEN "ValueError"
               ELSE "ok"
    IN /\ file_tree' = IF ret = "ok"
                       THEN [file_tree EXCEPT ![Base] = t1 @@ (child :> Mounted(ext_name))]
                       ELSE [file_tree EXCEPT ![Base] = t1]
       /\ inserted' = [inserted EXCEPT ![Base] =
                        @ \o (IF exts \in DOMAIN t THEN <<>> ELSE <<exts>>)
                          \o (IF ret = "ok" THEN <<child>> ELSE <<>>)]
       /\ data_files' = IF ret = "ok"
                        THEN [data_files EXCEPT ![ext_name] = PairsOf(ext_dir) \o @]
                        ELSE data_files
       /\ loads' = <<>>
       /\ res' = Result("load_extension", child, "none", ret, Base, child, NoNode, {})
       /\ UNCHANGED <<disk, loaded, popped, gen>>

\* the keys of the children of the 'extensions' node, whatever they are
get_extensions ==
    LET exts == <<"extensions">>
        t == file_tree[Base]
        ret == IF exts \in DOMAIN t /\ t[exts].kind # "dir" THEN "AttributeError" ELSE "ok"
        names == IF ret = "ok"
                 THEN {Last(c) : c \in {c \in DOMAIN t : Len(c) = 2 /\ Front(c) = exts}}
                 ELSE {}
    IN /\ res' = Result("get_extensions", exts, "none", ret, Base, exts, NodeAt(t, exts),
                        {[path |-> <<"extensions", n>>, name |-> n] : n \in names})
       /\ loads' = <<>>
       /\ UNCHANGED <<disk, file_tree, inserted, data_files, loaded, popped, gen>>

\* r the result of _find_entry
exists_result(path, r) ==
    /\ Commit(r.w)
    /\ res' = Result("file_exists", path, r.ret,
                     IF Raised(r) THEN r.ret
                     ELSE IF r.ret = "ok" /\ r.entry.kind = "file" THEN "true"
                     ELSE "false",
                     r.owner, r.at, r.entry, {})
    /\ UNCHANGED <<disk, gen>>

file_exists(path) ==
    exists_result(path, find_entry(World, Base, <<>>, split_game_path(LowerPath(path))))

\* 'while owner._load_next_cat_file(): pass'
RECURSIVE load_all(_, _)
load_more(r, fs) == IF r.ret = "true" THEN load_all(r.w, fs) ELSE r

load_all(w, fs) == load_more(load_next_cat_file(w, fs), fs)

\* the generator object of list_files: st is "none" (no call yet), "created"
\* (the body has not started), "suspended" (at a yield) or "done"; find,
\* owner, at and entry are what the body got from _find_entry, size is the
\* length of the children dict when its iteration began, pos the place of
\* the child yielded last, yielded the entries yielded so far; direct tells
\* that nothing else was called between the call, the resumptions and now
NoGen == [st |-> "none", path |-> <<>>, find |-> "none", owner |-> Base, at |-> <<>>,
          entry |-> NoNode, size |-> 0, pos |-> 0, yielded |-> <<>>, direct |-> TRUE]

\* the filesystem whose directory the generator iterates, and the directory:
\* for a mounted CatFileLoader the nested generator entry.list_files('')
\* iterates the root of the mounted filesystem
GenFs(g) == IF g.entry.kind = "fs" THEN g.entry.name ELSE g.owner
GenDir(g) == IF g.entry.kind = "fs" THEN <<>> ELSE g.at

\* the keys of the children dict of directory k of fs, in insertion order
Children(w, fs, k) ==
    SelectSeq(w.inserted[fs], LAMBDA c : Len(c) = Len(k) + 1 /\ Front(c) = k)

\* full_path + name, with full_path = '/'.join(parts) + '/'
JoinDir(parts, rest) == IF parts = <<>> THEN <<"">> \o rest ELSE parts \o rest

\* Entry(full_path + e.name, e.name); below a mount Entry(full_path + e.path,
\* e.name) with e.path the '/' + name the nested generator yields
Entry(parts, nested, name) ==
    [path |-> IF nested THEN JoinDir(parts, JoinDir(<<>>, <<name>>))
              ELSE JoinDir(parts, <<name>>),
     name |-> name]

\* the place of the first CatEntry among the children from place i on, 0
\* when there is none
RECURSIVE next_file(_, _, _)
next_file(t, children, i) ==
    IF i > Len(children) THEN 0
    ELSE IF t[children[i]].kind = "file" THEN i
    ELSE next_file(t, children, i + 1)

\* a generator that has ended holds nothing of its run
Ended == [NoGen EXCEPT !.st = "done"]

\* a resumption ends: the generator yielded (ret "yield") or raised ret
list_step(w, g, ret) ==
    /\ Commit(w)
    /\ gen' = IF g.st = "done" THEN Ended ELSE g
    /\ res' = Result("next", g.path, g.find, ret, g.owner, g.at, g.entry,
                     {g.yielded[i] : i \in DOMAIN g.yielded})
    /\ UNCHANGED disk

\* a step of 'for e in entry.children.values()': the dict iterator raises
\* RuntimeError when the dict has changed size since the iteration began,
\* children that are not CatEntry are passed over; i is the place of the next
\* CatEntry
for_children(w, g, children, i) ==
    IF Len(children) # g.size
    THEN list_step(w, [g EXCEPT !.st = "done"], "RuntimeError")
    ELSE IF i = 0
    THEN list_step(w, [g EXCEPT !.st = "done"], "StopIteration")
    ELSE list_step(w, [g EXCEPT !.st = "suspended", !.pos = i,
                                !.yielded = Append(@, Entry(split_game_path(LowerPath(g.path)),
                                                            g.entry.kind = "fs",
                                                            Last(children[i])))],
                   "yield")

\* the generator goes on from the child it yielded last
resume(w, g) ==
    for_children(w, g, Children(w, GenFs(g), GenDir(g)),
                 next_file(w.file_tree[GenFs(g)], Children(w, GenFs(g), GenDir(g)), g.pos + 1))

\* l the result of the loads: an exception of a load ends the generator, else
\* the iteration of the children begins
list_loaded(g, l) ==
    IF l.ret # "false" THEN list_step(l.w, [g EXCEPT !.st = "done"], l.ret)
    ELSE resume(l.w, [g EXCEPT !.size = Len(Children(l.w, GenFs(g), GenDir(g)))])

\* r the result of _find_entry: what is neither a directory nor a mounted
\* filesystem raises ValueError
list_entry(g, r) ==
    IF Raised(r) THEN list_step(r.w, [g EXCEPT !.st = "done"], r.ret)
    ELSE IF ~(r.ret = "ok" /\ r.entry.kind \in {"fs", "dir"})
    THEN list_step(r.w, [g EXCEPT !.st = "done"], "ValueError")
    ELSE list_loaded(g, load_all(r.w, GenFs(g)))

\* the body from its start to the first yield
list_found(g, r) ==
    list_entry([g EXCEPT !.find = r.ret, !.owner = r.owner, !.at = r.at, !.entry = r.entry], r)

\* the call runs nothing of the body: it returns a new generator
list_files(path) ==
    /\ gen' = [NoGen EXCEPT !.st = "created", !.path = path]
    /\ res' = Result("list_files", path, "none", "generator", Base, <<>>, NoNode, {})
    /\ loads' = <<>>
    /\ UNCHANGED <<disk, file_tree, inserted, data_files, loaded, popped>>

\* nothing else was called since the call of list_files: the last operation
\* was the call or a resumption, and so it was at every resumption before
Direct ==
    IF gen.st = "created" THEN res.op = "list_files" ELSE gen.direct /\ res.op = "next"

\* next(g): the first runs the body up to its first yield, with the lookup
\* and the loads; a later one goes on after the yield; on a generator that
\* has ended it raises StopIteration
list_files_next ==
    /\ gen.st # "none"
    /\ IF gen.st = "created"
       THEN list_found([gen EXCEPT !.direct = Direct],
                       find_entry(World, Base, <<>>, split_game_path(LowerPath(gen.path))))
       ELSE IF gen.st = "suspended"
       THEN resume(World, [gen EXCEPT !.direct = Direct])
       ELSE list_step(World, gen, "StopIteration")

----------------------------------------------------------------------------
(* DatGameFile, the bounded region reader *)

SEEK_SET == 0
SEEK_CUR == 1
SEEK_END == 2

Max(a, b) == IF a > b THEN a ELSE b
Min(a, b) == IF a < b THEN a ELSE b

Handle(r) == reader[r].dat_file

\* dat_file.tell()
dat_tell(r) == dat_pos[Handle(r)]

\* clamp_op passing a negative size on as 'to the end of the blob'
clamp_op_unbounded(r, size) ==
    LET max_size == Max(0, reader[r].end - dat_tell(r)) IN
    IF size < 0 THEN Max(0, blob_len[Handle(r)] - dat_tell(r)) ELSE Min(size, max_size)

clamp_op(r, size) ==
    LET max_size == Max(0, reader[r].end - dat_tell(r)) IN
    IF size < 0 THEN max_size ELSE Min(size, max_size)

\* clamp_pos without the upper clamp
clamp_pos_open(r, offset) == Max(offset, reader[r].start)

clamp_pos(r, offset) == Min(Max(offset, reader[r].start), reader[r].end)

\* the numbers of bytes dat_file.read(n) may return for n >= 0: nothing at
\* the end of the blob, else at least one byte and at most n (a raw stream
\* may return fewer than asked)
dat_read(r, n) ==
    LET avail == Max(0, blob_len[Handle(r)] - dat_tell(r)) IN
    IF n = 0 \/ avail = 0 THEN {0} ELSE 1..Min(n, avail)

\* from is the position of the handle before the operation; whence is that
\* of a seek, SEEK_SET by default
Io(op, r, arg, ret, from, err) ==
    [op |-> op, reader |-> r, arg |-> arg, ret |-> ret, from |-> from, err |-> err,
     whence |-> SEEK_SET]

\* DatGameFile.read moving the handle by m bytes
Advance(r, m) ==
    /\ dat_pos' = [dat_pos EXCEPT ![Handle(r)] = @ + m]
    /\ total' = [total EXCEPT ![r] = IF @ < 0 THEN @ ELSE @ + m]

\* dat_file.closed
Closed(r) == closed[Handle(r)]

\* an operation on a closed handle: dat_file.tell(), read() and seek() raise
\* ValueError and nothing moves
Refused(op, r, arg) ==
    /\ io' = Io(op, r, arg, 0, dat_tell(r), "ValueError")
    /\ UNCHANGED <<dat_pos, total>>

\* ret is the number of bytes returned, from the blob position of the first
read(r, size) ==
    /\ pc[r] = "idle"
    /\ IF Closed(r) THEN Refused("read", r, size)
       ELSE \E m \in dat_read(r, clamp_op(r, size)) :
               /\ Advance(r, m)
               /\ io' = Io("read", r, size, m, dat_tell(r), "none")
    /\ UNCHANGED <<blob_len, closed, reader, pc, ra>>

\* n is len(b); the bytes go to the slice b[0:size], ret is their number
readinto(r, n) ==
    /\ pc[r] = "idle"
    /\ IF Closed(r) THEN Refused("readinto", r, n)
       ELSE \E m \in dat_read(r, clamp_op(r, n)) :
               /\ Advance(r, m)
               /\ io' = Io("readinto", r, n, m, dat_tell(r), "none")
    /\ UNCHANGED <<blob_len, closed, reader, pc, ra>>

\* closes the underlying handle, for every reader over it
close(r) ==
    /\ pc[r] = "idle"
    /\ closed' = [closed EXCEPT ![Handle(r)] = TRUE]
    /\ io' = Io("close", r, 0, 0, dat_tell(r), "none")
    /\ UNCHANGED <<blob_len, dat_pos, reader, pc, ra, total>>

\* the reader is collected: dat_file.__del__() closes the underlying handle,
\* and no operation of the reader follows
__del__(r) ==
    /\ pc[r] = "idle"
    /\ closed' = [closed EXCEPT ![Handle(r)] = TRUE]
    /\ pc' = [pc EXCEPT ![r] = "collected"]
    /\ io' = Io("__del__", r, 0, 0, dat_tell(r), "none")
    /\ UNCHANGED <<blob_len, dat_pos, reader, ra, total>>

\* readall up to its first read; it returns at once when that read is complete
readall(r) ==
    /\ pc[r] = "idle"
    /\ IF Closed(r) THEN Refused("readall", r, -1) /\ UNCHANGED <<pc, ra>>
       ELSE LET size == clamp_op(r, -1) IN
            \E m \in dat_read(r, clamp_op(r, size)) :
               /\ Advance(r, m)
               /\ IF m < size
                  THEN /\ pc' = [pc EXCEPT ![r] = "readall"]
                       /\ ra' = [ra EXCEPT ![r] = [size |-> size, buf |-> m]]
                       /\ io' = Io("readall.read", r, size, m, dat_tell(r), "none")
                  ELSE /\ io' = Io("readall", r, -1, m, dat_tell(r), "none")
                       /\ UNCHANGED <<pc, ra>>
    /\ UNCHANGED <<blob_len, closed, reader>>

\* one iteration of 'while len(buf) < size: buf += self.read(size - len(buf))'
readall_loop(r) ==
    /\ pc[r] = "readall"
    /\ LET size == ra[r].size
           buf == ra[r].buf
       IN IF Closed(r)
          THEN /\ Refused("readall", r, -1)
               /\ pc' = [pc EXCEPT ![r] = "idle"]
               /\ ra' = [ra EXCEPT ![r] = [size |-> 0, buf |-> 0]]
          ELSE \E m \in dat_read(r, clamp_op(r, size - buf)) :
             /\ Advance(r, m)
             /\ IF buf + m < size
                THEN /\ ra' = [ra EXCEPT ![r].buf = buf + m]
                     /\ io' = Io("readall.read", r, size - buf, m, dat_tell(r), "none")
                     /\ pc' = pc
                ELSE /\ pc' = [pc EXCEPT ![r] = "idle"]
                     /\ ra' = [ra EXCEPT ![r] = [size |-> 0, buf |-> 0]]
                     /\ io' = Io("readall", r, -1, buf + m, dat_tell(r) - buf, "none")
    /\ UNCHANGED <<blob_len, closed, reader>>

\* an unknown whence raises ValueError, and so does dat_file.tell() or
\* dat_file.seek() on a closed handle
seek(r, offset, whence) ==
    /\ pc[r] = "idle"
    /\ IF whence \in {SEEK_SET, SEEK_CUR, SEEK_END} /\ ~Closed(r)
       THEN LET abs_pos == IF whence = SEEK_SET THEN clamp_pos(r, offset + reader[r].start)
                           ELSE IF whence = SEEK_CUR THEN clamp_pos(r, offset + dat_tell(r))
                           ELSE clamp_pos(r, offset + reader[r].end)
            IN /\ dat_pos' = [dat_pos EXCEPT ![Handle(r)] = abs_pos]
               /\ total' = [total EXCEPT ![r] = IF abs_pos = reader[r].start THEN 0 ELSE -1]
               /\ io' = [Io("seek", r, offset, abs_pos - reader[r].start, dat_tell(r), "none")
                            EXCEPT !.whence = whence]
       ELSE /\ io' = [Io("seek", r, offset, 0, dat_tell(r), "ValueError")
                            EXCEPT !.whence = whence]
            /\ UNCHANGED <<dat_pos, total>>
    /\ UNCHANGED <<blob_len, closed, reader, pc, ra>>

tell(r) ==
    /\ pc[r] = "idle"
    /\ io' = IF Closed(r) THEN Io("tell", r, 0, 0, dat_tell(r), "ValueError")
             ELSE Io("tell", r, 0, dat_tell(r) - reader[r].start, dat_tell(r), "none")
    /\ UNCHANGED <<blob_len, dat_pos, closed, reader, pc, ra, total>>

\* a write that goes through to the underlying handle
write_through(r, b) ==
    /\ pc[r] = "idle"
    /\ dat_pos' = [dat_pos EXCEPT ![Handle(r)] = @ + b]
    /\ blob_len' = [blob_len EXCEPT ![Handle(r)] = Max(@, dat_tell(r) + b)]
    /\ io' = Io("write", r, b, b, dat_tell(r), "none")
    /\ UNCHANGED <<closed, reader, pc, ra, total>>

\* b is the number of bytes offered
write(r, b) ==
    /\ pc[r] = "idle"
    /\ io' = Io("write", r, b, 0, dat_tell(r), "NotImplementedError")
    /\ UNCHANGED <<blob_len, dat_pos, closed, reader, pc, ra, total>>

writelines(r, b) ==
    /\ pc[r] = "idle"
    /\ io' = Io("writelines", r, b, 0, dat_tell(r), "NotImplementedError")
    /\ UNCHANGED <<blob_len, dat_pos, closed, reader, pc, ra, total>>

truncate(r) ==
    /\ pc[r] = "idle"
    /\ io' = Io("truncate", r, 0, 0, dat_tell(r), "NotImplementedError")
    /\ UNCHANGED <<blob_len, dat_pos, closed, reader, pc, ra, total>>

\* ret 0 is False
writable(r) ==
    /\ pc[r] = "idle"
    /\ io' = Io("writable", r, 0, 0, dat_tell(r), "none")
    /\ UNCHANGED <<blob_len, dat_pos, closed, reader, pc, ra, total>>

\* the numbers of bytes dat_file.readline(n) may return for n >= 0: at most n,
\* fewer when the line ends earlier
dat_readline(r, n) ==
    LET avail == Max(0, blob_len[Handle(r)] - dat_tell(r)) IN
    IF n = 0 \/ avail = 0 THEN {0} ELSE 1..Min(n, avail)

\* the numbers of bytes dat_file.readlines(hint) may return: whole lines up
\* to the end of the blob when hint <= 0, else whole lines until their total
\* exceeds hint or the blob ends
dat_readlines(r, hint) ==
    LET avail == Max(0, blob_len[Handle(r)] - dat_tell(r)) IN
    IF hint <= 0 \/ avail <= hint THEN {avail} ELSE (hint + 1)..avail

readline(r, size) ==
    /\ pc[r] = "idle"
    /\ IF Closed(r) THEN Refused("readline", r, size)
       ELSE \E m \in dat_readline(r, clamp_op(r, size)) :
               /\ Advance(r, m)
               /\ io' = Io("readline", r, size, m, dat_tell(r), "none")
    /\ UNCHANGED <<blob_len, closed, reader, pc, ra>>

\* ret is the number of bytes of the lines returned
readlines(r, hint) ==
    /\ pc[r] = "idle"
    /\ IF Closed(r) THEN Refused("readlines", r, hint)
       ELSE \E m \in dat_readlines(r, clamp_op(r, hint)) :
               /\ Advance(r, m)
               /\ io' = Io("readlines", r, hint, m, dat_tell(r), "none")
    /\ UNCHANGED <<blob_len, closed, reader, pc, ra>>

\* DatGameFile(dat_file, offset, size) over the handle dat_file: the handle is
\* moved to the start of the new reader
AddReader(dat_file, offset, size, op) ==
    /\ reader' = Append(reader, [dat_file |-> dat_file, start |-> offset, end |-> offset + size])
    /\ pc' = Append(pc, "idle")
    /\ ra' = Append(ra, [size |-> 0, buf |-> 0])
    /\ total' = Append(total, 0)
    /\ io' = Io(op, Len(reader) + 1, offset, 0, offset, "none")

\* the length of the .dat file of a pair
DatLen(pair) == disk.dat[pair[1]][pair[2]]

\* a variant of the end of open_file that keeps one handle for every call
open_dat_cached(entry) ==
    IF dat_pos = <<>>
    THEN /\ blob_len' = <<DatLen(entry.dat_path)>>
         /\ dat_pos' = <<entry.offset>>
         /\ closed' = <<FALSE>>
         /\ AddReader(1, entry.offset, entry.size, "open_file")
    ELSE /\ dat_pos' = [dat_pos EXCEPT ![1] = entry.offset]
         /\ AddReader(1, entry.offset, entry.size, "open_file")
         /\ UNCHANGED <<blob_len, closed>>

\* the end of open_file: 'dat_file = open(entry.dat_path, 'rb')' is a new
\* handle on the .dat file of the entry, then
\* DatGameFile(dat_file, entry.offset, entry.size) moves it to entry.offset
open_dat(entry) ==
    /\ blob_len' = Append(blob_len, DatLen(entry.dat_path))
    /\ dat_pos' = Append(dat_pos, entry.offset)
    /\ closed' = Append(closed, FALSE)
    /\ AddReader(Len(dat_pos) + 1, entry.offset, entry.size, "open_file")

\* r the result of _find_entry; a call that raises makes no reader
open_result(path, r) ==
    /\ Commit(r.w)
    /\ res' = Result("open_file", path, r.ret,
                     IF Raised(r) THEN r.ret
                     ELSE IF r.ret = "ok" /\ r.entry.kind = "file" THEN "ok"
                     ELSE "ValueError",
                     r.owner, r.at, r.entry, {})
    /\ IF ~Raised(r) /\ r.ret = "ok" /\ r.entry.kind = "file"
       THEN Len(reader) < MaxReaders /\ open_dat(r.entry)
       ELSE UNCHANGED rdVars
    /\ UNCHANGED <<disk, gen>>

\* CatFileLoader.open_file: 'if not path' is tested before the lookup
open_file(path) ==
    IF path = <<"">>
    THEN /\ res' = Result("open_file", path, "none", "ValueError", Base, <<>>, NoNode, {})
         /\ loads' = <<>>
         /\ UNCHANGED <<disk, file_tree, inserted, data_files, loaded, popped, gen>>
         /\ UNCHANGED rdVars
    ELSE open_result(path, find_entry(World, Base, <<>>, split_game_path(LowerPath(path))))

\* a second DatGameFile made by the caller over the handle of reader r; on
\* a closed handle the seek of __init__ raises ValueError
DatGameFile(r, offset, size) ==
    /\ Len(reader) < MaxReaders
    /\ IF Closed(r)
       THEN /\ Refused("DatGameFile", r, offset)
            /\ UNCHANGED <<reader, pc, ra>>
       ELSE /\ dat_pos' = [dat_pos EXCEPT ![Handle(r)] = offset]
            /\ AddReader(Handle(r), offset, size, "DatGameFile")
    /\ UNCHANGED <<blob_len, closed>>

----------------------------------------------------------------------------
(* MacroDB of src/macros.py, over a file loader that holds the documents docs.
   A document is [macros, components]: the <macro name class> nodes and the
   <component name class> nodes below its root, in document order.  A macro
   node is [name, class, properties, component, connections]: the fields of
   each of its <properties> nodes, the ref of each of its <component> nodes
   and its (connection ref, macro ref) pairs. *)

EngineA == "engine_a_macro"
EngineB == "engine_b_macro"
EngineC == "engine_c_macro"
StorageS == "storage_arg_s_x_macro"
Unhandled == "d_macro"

\* the paths of the names of the model, as the patterns of the code give them
resolve_macro_xml_path(macro_id) ==
    CASE macro_id = StorageS ->
            <<"assets/units/ship_s/macros/storage_arg_s_x_macro.xml",
              "assets/props/StorageModules/macros/storage_arg_s_x_macro.xml">>
      [] macro_id = EngineA -> <<"assets/props/Engines/macros/engine_a_macro.xml">>
      [] macro_id = EngineB -> <<"assets/props/Engines/macros/engine_b_macro.xml">>
      [] macro_id = EngineC -> <<"assets/props/Engines/macros/engine_c_macro.xml">>
      [] OTHER -> <<>>

resolve_component_xml_path(name) ==
    CASE name = "engine_a" -> <<"assets/props/Engines/engine_a.xml">>
      [] name = "engine_x" -> <<"assets/props/Engines/engine_x.xml">>
      [] OTHER -> <<>>

\* 'for path in paths: if self.floader.file_exists(path)': the first path
\* that exists, "" when none does
RECURSIVE first_existing(_, _)
first_existing(paths, i) ==
    IF i > Len(paths) THEN ""
    ELSE IF paths[i] \in DOMAIN docs THEN paths[i]
    ELSE first_existing(paths, i + 1)

\* the parsers set by the caller return the fields the node carries
macro_parser(fields) == fields
component_parser(fields) == fields

EmptyDict == [k \in {} |-> 0]

\* the properties of the component found in the file at comp_path
component_properties(comp_name, comp_path) ==
    LET comp_nodes == SelectSeq(docs[comp_path].components, LAMBDA c : c.name = comp_name) IN
    IF Len(comp_nodes) = 1 THEN component_parser(comp_nodes[1].fields) ELSE EmptyDict

load_component_propertie(comp_name) ==
    LET comp_path == first_existing(resolve_component_xml_path(comp_name), 1) IN
    IF comp_path = "" THEN EmptyDict ELSE component_properties(comp_name, comp_path)

\* properties.update(comp_props): the keys of comp_props are set in properties
update(properties, comp_props) == comp_props @@ properties

\* the properties of one macro node
node_properties(node) ==
    LET properties == IF Len(node.properties) = 1
                      THEN macro_parser(node.properties[1]) ELSE EmptyDict
    IN IF Len(node.component) = 1
       THEN update(properties, load_component_propertie(node.component[1]))
       ELSE properties

Macro(name, macro_type, properties, connections) ==
    [name |-> name, type |-> macro_type, connections |-> connections,
     properties |-> properties]

\* a variant that does not put the names referred to into the pending set
load_macro_node_no_deps(db, node) ==
    LET t_macros == IF node.class \in DOMAIN db.macros_by_type
                    THEN db.macros_by_type[node.class] ELSE <<>>
    IN [macros |-> (node.name :> Macro(node.name, node.class, node_properties(node),
                                        node.connections)) @@ db.macros,
        macros_by_type |-> (node.class :> Append(t_macros, node.name)) @@ db.macros_by_type,
        dependencies |-> db.dependencies \ {node.name}]

\* a variant that leaves the name of the node in the pending set
load_macro_node_no_discard(db, node) ==
    LET refs == {node.connections[i][2] : i \in DOMAIN node.connections}
        t_macros == IF node.class \in DOMAIN db.macros_by_type
                    THEN db.macros_by_type[node.class] ELSE <<>>
    IN [macros |-> (node.name :> Macro(node.name, node.class, node_properties(node),
                                        node.connections)) @@ db.macros,
        macros_by_type |-> (node.class :> Append(t_macros, node.name)) @@ db.macros_by_type,
        dependencies |-> db.dependencies \cup (refs \ DOMAIN db.macros)]

\* the body of the loop over the macro nodes of a file; db is
\* [macros, macros_by_type, dependencies]
load_macro_node(db, node) ==
    LET refs == {node.connections[i][2] : i \in DOMAIN node.connections}
        t_macros == IF node.class \in DOMAIN db.macros_by_type
                    THEN db.macros_by_type[node.class] ELSE <<>>
    IN [macros |-> (node.name :> Macro(node.name, node.class, node_properties(node),
                                        node.connections)) @@ db.macros,
        macros_by_type |-> (node.class :> Append(t_macros, node.name)) @@ db.macros_by_type,
        dependencies |-> (db.dependencies \cup (refs \ DOMAIN db.macros)) \ {node.name}]

RECURSIVE load_macro_nodes(_, _, _)
load_macro_nodes(db, nodes, i) ==
    IF i > Len(nodes) THEN db
    ELSE load_macro_nodes(load_macro_node(db, nodes[i]), nodes, i + 1)

\* load_macro_xml_file for a file that exists
load_file(db, path) == load_macro_nodes(db, docs[path].macros, 1)

\* step 3 of _resolve_step for one ref: the first path that exists is loaded
try_ref(db, path) == IF path = "" THEN db ELSE load_file(db, path)

\* a variant that gives up at the first ref none of whose paths exists
RECURSIVE try_refs_abort(_, _, _)
try_refs_abort(db, order, i) ==
    IF i > Len(order) THEN db
    ELSE IF first_existing(resolve_macro_xml_path(order[i]), 1) = "" THEN db
    ELSE try_refs_abort(load_file(db, first_existing(resolve_macro_xml_path(order[i]), 1)),
                        order, i + 1)

\* step 3 of _resolve_step, the refs of deps_before taken in the given order
RECURSIVE try_refs(_, _, _)
try_refs(db, order, i) ==
    IF i > Len(order) THEN db
    ELSE try_refs(try_ref(db, first_existing(resolve_macro_xml_path(order[i]), 1)),
                  order, i + 1)

\* the orders a set may be iterated in
Orders(S) ==
    {f \in [1..Cardinality(S) -> S] : \A i, j \in 1..Cardinality(S) : f[i] = f[j] => i = j}

Db == [macros |-> macros, macros_by_type |-> macros_by_type, dependencies |-> dependencies]

DbCommit(db) ==
    /\ macros' = db.macros
    /\ macros_by_type' = db.macros_by_type
    /\ dependencies' = db.dependencies

DbRes(op, path, ret) == [op |-> op, path |-> path, ret |-> ret]

\* the number of names in the lists of macros_by_type
RECURSIVE Loaded(_)
Loaded(by_type) ==
    IF DOMAIN by_type = {} THEN 0
    ELSE LET t == CHOOSE x \in DOMAIN by_type : TRUE
         IN Len(by_type[t]) + Loaded([u \in DOMAIN by_type \ {t} |-> by_type[u]])

\* the file loaders of get_file_loader: CatFileLoader and FSFileLoader
FileLoaders == {"cat", "fs"}

\* floader.open_file(path) for a file that does not exist: CatFileLoader
\* raises ValueError('File not found'), FSFileLoader what open() raises
open_missing(loader) == IF loader = "cat" THEN "ValueError" ELSE "FileNotFoundError"

\* a file that does not exist makes floader.open_file raise
load_macro_xml_file(path) ==
    /\ db_pc = "idle"
    /\ Loaded(macros_by_type) < MaxLoaded
    /\ IF path \in DOMAIN docs
       THEN /\ DbCommit(load_file(Db, path))
            /\ db_res' = DbRes("load_macro_xml_file", path, "none")
       ELSE /\ db_res' = DbRes("load_macro_xml_file", path, open_missing(floader))
            /\ UNCHANGED <<macros, macros_by_type, dependencies>>
    /\ UNCHANGED <<docs, floader, db_pc>>

\* the call of resolve_dependencies up to the first test of its loop
resolve_dependencies ==
    /\ db_pc = "idle"
    /\ Loaded(macros_by_type) <= MaxLoaded
    /\ IF dependencies = {}
       THEN /\ db_res' = DbRes("resolve_dependencies", "", "true")
            /\ db_pc' = db_pc
       ELSE /\ db_res' = DbRes("resolve_dependencies.loop", "", "none")
            /\ db_pc' = "resolving"
    /\ UNCHANGED <<docs, floader, macros, macros_by_type, dependencies>>

\* a variant without the loop: the call returns after one _resolve_step
resolve_next_once(deps_before, db) ==
    /\ DbCommit(db)
    /\ db_pc' = "idle"
    /\ db_res' = DbRes("resolve_dependencies", "",
                       IF db.dependencies = {} THEN "true" ELSE "false")
    /\ UNCHANGED <<docs, floader>>

\* a variant that does not break: the loop goes on while names are pending
resolve_next_retry(deps_before, db) ==
    /\ DbCommit(db)
    /\ IF db.dependencies = {}
       THEN /\ db_pc' = "idle"
            /\ db_res' = DbRes("resolve_dependencies", "", "true")
       ELSE /\ db_pc' = db_pc
            /\ db_res' = DbRes("resolve_dependencies.loop", "", "none")
    /\ UNCHANGED <<docs, floader>>

\* the end of one iteration: db the state after _resolve_step
resolve_next(deps_before, db) ==
    /\ DbCommit(db)
    /\ IF deps_before = db.dependencies \/ db.dependencies = {}
       THEN /\ db_pc' = "idle"
            /\ db_res' = DbRes("resolve_dependencies", "",
                               IF db.dependencies = {} THEN "true" ELSE "false")
       ELSE /\ db_pc' = db_pc
            /\ db_res' = DbRes("resolve_dependencies.loop", "", "none")
    /\ UNCHANGED <<docs, floader>>

\* one iteration of the loop of resolve_dependencies: a whole _resolve_step,
\* then the loop's tests
resolve_step ==
    /\ db_pc = "resolving"
    /\ \E order \in Orders(dependencies \ DOMAIN macros) :
          resolve_next(dependencies \ DOMAIN macros,
                       try_refs([Db EXCEPT !.dependencies = @ \ DOMAIN macros], order, 1))

----------------------------------------------------------------------------
(* The filesystem: index files drawn from a few lines, then any sequence of
   scans, mounts and lookups *)

\* the lines of the index files of the game root and of an overlay
RootLines == {Line(<<"a">>, 1), Line(<<"a", "b">>, 1),
              Line(<<"extensions", "m", "a">>, 1), ShortLine}
ExtLines == {Line(<<"a">>, 1)}

Disks == {Archive(r, e, 0) :
            r \in SeqsUpTo(SeqsUpTo(RootLines, MaxLines), MaxPairs),
            e \in [1..MaxExtPairs -> SeqsUpTo(ExtLines, MaxExtLines)]}

\* the paths looked up
QueryPaths == {<<"a">>, <<"A", "b">>, <<"extensions", "m", "a">>}
OpenPaths == {<<"a">>, <<"">>}
ListPaths == {<<"">>, <<"extensions", "m">>}

NoIo == Io("none", 0, 0, 0, 0, "none")

FsInit ==
    /\ file_tree = [fs \in FsIds |-> EmptyTree]
    /\ inserted = [fs \in FsIds |-> <<>>]
    /\ data_files = [fs \in FsIds |-> <<>>]
    /\ loaded = [fs \in FsIds |-> {}]
    /\ popped = [fs \in FsIds |-> {}]
    /\ loads = <<>>
    /\ gen = NoGen
    /\ res = Result("init", <<>>, "none", "ok", Base, <<>>, NoNode, {})

NoReaders ==
    /\ blob_len = <<>>
    /\ dat_pos = <<>>
    /\ closed = <<>>
    /\ reader = <<>>
    /\ pc = <<>>
    /\ ra = <<>>
    /\ total = <<>>
    /\ io = NoIo

\* MacroDB.__init__, over a file loader without files
NoDb ==
    /\ docs = <<>>
    /\ floader = "cat"
    /\ macros = <<>>
    /\ macros_by_type = <<>>
    /\ dependencies = {}
    /\ db_pc = "idle"
    /\ db_res = [op |-> "init", path |-> "", ret |-> "none"]

\* LanguageResolver.__init__, with no resolve_string running
NoLang ==
    /\ lang_trees = <<>>
    /\ default_lang = "None"
    /\ lg_pc = "idle"
    /\ rs = <<>>
    /\ lg_res = [op |-> "init", ret |-> "none", text |-> <<>>]

Init ==
    /\ disk \in Disks
    /\ FsInit
    /\ NoReaders
    /\ NoDb
    /\ NoLang

Next ==
    \/ load_from_game_root /\ UNCHANGED <<rdVars, dbVars, lgVars>>
    \/ \E ext_name \in ExtNames, ext_dir \in ExtDirs :
          load_extension(ext_name, ext_dir) /\ UNCHANGED <<rdVars, dbVars, lgVars>>
    \/ \E path \in QueryPaths : file_exists(path) /\ UNCHANGED <<rdVars, dbVars, lgVars>>
    \/ \E path \in OpenPaths : open_file(path) /\ UNCHANGED <<dbVars, lgVars>>
    \/ get_extensions /\ UNCHANGED <<rdVars, dbVars, lgVars>>

Spec == Init /\ [][Next]_vars

----------------------------------------------------------------------------
(* Listings: the caller holds the generator of its last call of list_files
   and resumes it when it likes, with scans, mounts and lookups of the same
   loader before the call, between the call and the first resumption, and
   between two entries *)

\* the index files of the game root: valid lines only, or the one line
\* without 4 fields (a file with such a line registers nothing, whatever its
\* other lines are)
\* the lines of the index files of a game root that is listed: two files of
\* the root directory, and a path that makes the first a directory
ListLines == {Line(<<"a">>, 1), Line(<<"a", "b">>, 1), Line(<<"b">>, 1)}

RootFiles == SeqsUpTo(ListLines, MaxLines) \cup {<<ShortLine>>}

ListDisks == {Archive(r, e, 0) :
                r \in SeqsUpTo(RootFiles, MaxPairs),
                e \in [1..MaxExtPairs -> SeqsUpTo(ExtLines, MaxExtLines)]}

ListInit ==
    /\ disk \in ListDisks
    /\ FsInit
    /\ NoReaders
    /\ NoDb
    /\ NoLang

ListNext ==
    \/ load_from_game_root /\ UNCHANGED <<rdVars, dbVars, lgVars>>
    \/ \E ext_name \in ExtNames, ext_dir \in ExtDirs :
          load_extension(ext_name, ext_dir) /\ UNCHANGED <<rdVars, dbVars, lgVars>>
    \/ \E path \in QueryPaths : file_exists(path) /\ UNCHANGED <<rdVars, dbVars, lgVars>>
    \/ \E path \in ListPaths : list_files(path) /\ UNCHANGED <<rdVars, dbVars, lgVars>>
    \/ list_files_next /\ UNCHANGED <<rdVars, dbVars, lgVars>>

SpecList == ListInit /\ [][ListNext]_vars

----------------------------------------------------------------------------
(* One index file with sizes from 0, loaded into an empty tree *)

CatLines == {Line(path, size) : path \in {<<"a">>, <<"B">>, <<"", "">>}, size \in 0..2}
                \cup {ShortLine, NanLine(<<"a">>)}

CatDisks == {Archive(<<lines>>, <<>>, 0) : lines \in SeqsUpTo(CatLines, MaxCatLines)}

CatInit ==
    /\ disk \in CatDisks
    /\ FsInit
    /\ NoReaders
    /\ NoDb
    /\ NoLang

CatNext ==
    \/ load_from_game_root /\ UNCHANGED <<rdVars, dbVars, lgVars>>
    \/ \E path \in {<<"a">>, <<"b">>} : file_exists(path) /\ UNCHANGED <<rdVars, dbVars, lgVars>>
    \/ list_files(<<"">>) /\ UNCHANGED <<rdVars, dbVars, lgVars>>
    \/ list_files_next /\ UNCHANGED <<rdVars, dbVars, lgVars>>

SpecCat == CatInit /\ [][CatNext]_vars

----------------------------------------------------------------------------
(* Names in upper and lower case: in the index lines, in the names of the
   overlays and in the paths looked up *)

CaseLines == {Line(<<"A">>, 1), Line(<<"b">>, 1)}

CaseDisks == {Archive(r, e, 0) :
                r \in SeqsUpTo(SeqsUpTo(CaseLines, MaxLines), MaxPairs),
                e \in [1..MaxExtPairs -> SeqsUpTo(ExtLines, MaxExtLines)]}

CasePaths == {<<"a">>, <<"A">>, <<"B">>, <<"extensions", "m", "a">>,
              <<"extensions", "M", "a">>, <<"EXTENSIONS", "M", "A">>}

\* the paths opened
CaseOpenPaths == {<<"A">>, <<"extensions", "M", "a">>}

CaseInit ==
    /\ disk \in CaseDisks
    /\ FsInit
    /\ NoReaders
    /\ NoDb
    /\ NoLang

CaseNext ==
    \/ load_from_game_root /\ UNCHANGED <<rdVars, dbVars, lgVars>>
    \/ \E ext_name \in MountNames, ext_dir \in ExtDirs :
          load_extension(ext_name, ext_dir) /\ UNCHANGED <<rdVars, dbVars, lgVars>>
    \/ \E path \in CasePaths : file_exists(path) /\ UNCHANGED <<rdVars, dbVars, lgVars>>
    \/ \E path \in CaseOpenPaths : open_file(path) /\ UNCHANGED <<dbVars, lgVars>>
    \/ get_extensions /\ UNCHANGED <<rdVars, dbVars, lgVars>>

SpecCase == CaseInit /\ [][CaseNext]_vars

----------------------------------------------------------------------------
(* One reader that owns its handle, then any sequence of its operations *)

NoFs ==
    /\ disk = Archive(<<>>, <<>>, 0)
    /\ FsInit

\* DatGameFile.__init__: the handle is moved to the start of the game file
ReaderInit ==
    \E len \in 0..MaxBlob, offset \in 0..MaxOffset, size \in 0..MaxSize :
        /\ blob_len = <<len>>
        /\ reader = <<[dat_file |-> 1, start |-> offset, end |-> offset + size]>>
        /\ dat_pos = <<offset>>
        /\ closed = <<FALSE>>
        /\ pc = <<"idle">>
        /\ ra = <<[size |-> 0, buf |-> 0]>>
        /\ total = <<0>>
        /\ io = Io("init", 1, 0, 0, offset, "none")
        /\ NoFs
        /\ NoDb
        /\ NoLang

ReaderNext ==
    \/ \E r \in DOMAIN reader, size \in -1..MaxArg : read(r, size) /\ UNCHANGED <<fsVars, dbVars, lgVars>>
    \/ \E r \in DOMAIN reader : readall(r) /\ UNCHANGED <<fsVars, dbVars, lgVars>>
    \/ \E r \in DOMAIN reader : readall_loop(r) /\ UNCHANGED <<fsVars, dbVars, lgVars>>
    \/ \E r \in DOMAIN reader, offset \in -MaxArg..MaxArg, whence \in 0..3 :
          seek(r, offset, whence) /\ UNCHANGED <<fsVars, dbVars, lgVars>>
    \/ \E r \in DOMAIN reader : tell(r) /\ UNCHANGED <<fsVars, dbVars, lgVars>>
    \/ \E r \in DOMAIN reader, b \in 1..2 : write(r, b) /\ UNCHANGED <<fsVars, dbVars, lgVars>>
    \/ \E r \in DOMAIN reader, b \in 1..2 : writelines(r, b) /\ UNCHANGED <<fsVars, dbVars, lgVars>>
    \/ \E r \in DOMAIN reader : truncate(r) /\ UNCHANGED <<fsVars, dbVars, lgVars>>
    \/ \E r \in DOMAIN reader : writable(r) /\ UNCHANGED <<fsVars, dbVars, lgVars>>
    \/ \E r \in DOMAIN reader, n \in 0..MaxArg : readinto(r, n) /\ UNCHANGED <<fsVars, dbVars, lgVars>>
    \/ \E r \in DOMAIN reader : close(r) /\ UNCHANGED <<fsVars, dbVars, lgVars>>
    \/ \E r \in DOMAIN reader : __del__(r) /\ UNCHANGED <<fsVars, dbVars, lgVars>>

SpecReader == ReaderInit /\ [][ReaderNext]_vars

\* the same reader with its line operations
LinesNext ==
    \/ \E r \in DOMAIN reader, size \in -1..MaxArg : read(r, size) /\ UNCHANGED <<fsVars, dbVars, lgVars>>
    \/ \E r \in DOMAIN reader, offset \in -MaxArg..MaxArg, whence \in 0..2 :
          seek(r, offset, whence) /\ UNCHANGED <<fsVars, dbVars, lgVars>>
    \/ \E r \in DOMAIN reader : tell(r) /\ UNCHANGED <<fsVars, dbVars, lgVars>>
    \/ \E r \in DOMAIN reader, size \in -1..MaxArg : readline(r, size) /\ UNCHANGED <<fsVars, dbVars, lgVars>>
    \/ \E r \in DOMAIN reader, hint \in -1..MaxArg : readlines(r, hint) /\ UNCHANGED <<fsVars, dbVars, lgVars>>
    \/ \E r \in DOMAIN reader, n \in 0..MaxArg : readinto(r, n) /\ UNCHANGED <<fsVars, dbVars, lgVars>>
    \/ \E r \in DOMAIN reader : close(r) /\ UNCHANGED <<fsVars, dbVars, lgVars>>

SpecLines == ReaderInit /\ [][LinesNext]_vars

\* the readers open_file returns, each over a handle of its own, and the
\* readers the caller makes over the handle of one of them, their operations
\* interleaved in any order
SharedLines == <<Line(<<"a">>, 2), Line(<<"b">>, 1), Line(<<"c">>, 1)>>

\* one pair in the game root; its .dat file holds every byte its index file
\* declares, or lacks the last
SharedDisks == {Archive(<<SharedLines>>, <<>>, short) : short \in {0, 1}}

SharedPaths == {<<"a">>, <<"b">>}

SharedInit ==
    /\ disk \in SharedDisks
    /\ FsInit
    /\ NoReaders
    /\ NoDb
    /\ NoLang

\* the caller scans the game root once, before its first lookup
SharedNext ==
    \/ /\ res.op = "init"
       /\ load_from_game_root /\ UNCHANGED <<rdVars, dbVars, lgVars>>
    \/ \E path \in SharedPaths : open_file(path) /\ UNCHANGED <<dbVars, lgVars>>
    \/ \E r \in DOMAIN reader, offset \in 0..MaxOffset, size \in 1..MaxSize :
          DatGameFile(r, offset, size) /\ UNCHANGED <<fsVars, dbVars, lgVars>>
    \/ \E r \in DOMAIN reader, size \in {-1, 1} :
          total[r] < MaxBlob /\ read(r, size) /\ UNCHANGED <<fsVars, dbVars, lgVars>>
    \/ \E r \in DOMAIN reader, offset \in {-1, 1}, whence \in 0..2 :
          seek(r, offset, whence) /\ UNCHANGED <<fsVars, dbVars, lgVars>>
    \/ \E r \in DOMAIN reader : tell(r) /\ UNCHANGED <<fsVars, dbVars, lgVars>>
    \/ \E r \in DOMAIN reader, n \in {1, 2} :
          total[r] < MaxBlob /\ readinto(r, n) /\ UNCHANGED <<fsVars, dbVars, lgVars>>
    \/ \E r \in DOMAIN reader : close(r) /\ UNCHANGED <<fsVars, dbVars, lgVars>>
    \/ \E r \in DOMAIN reader : __del__(r) /\ UNCHANGED <<fsVars, dbVars, lgVars>>

SpecShared == SharedInit /\ [][SharedNext]_vars

----------------------------------------------------------------------------
(* The record database over a few documents.  Every document is either absent
   or one of a few texts; the caller loads files and resolves dependencies in
   any order. *)

Node(name, class, properties, component, connections) ==
    [name |-> name, class |-> class, properties |-> properties,
     component |-> component, connections |-> connections]

\* a macro node of class engine with one connection per ref and no more
Eng(name, refs) ==
    Node(name, "engine", <<>>, <<>>, [i \in DOMAIN refs |-> <<"c", refs[i]>>])

Sto(name) == Node(name, "storage", <<>>, <<>>, <<>>)

Doc(ms) == [macros |-> ms, components |-> <<>>]

PathA == "assets/props/Engines/macros/engine_a_macro.xml"
PathB == "assets/props/Engines/macros/engine_b_macro.xml"
PathC == "assets/props/Engines/macros/engine_c_macro.xml"
PathS1 == "assets/units/ship_s/macros/storage_arg_s_x_macro.xml"
PathS2 == "assets/props/StorageModules/macros/storage_arg_s_x_macro.xml"
PathCompA == "assets/props/Engines/engine_a.xml"

\* f gives each path no document or one; the files that exist
Files(f) == [p \in {q \in DOMAIN f : Len(f[q]) = 1} |-> f[p][1]]

ADocs == {<<>>} \cup {<<Doc(<<Eng(EngineA, r)>>)>> :
             r \in {<<EngineB>>, <<EngineB, Unhandled>>, <<EngineB, EngineC>>,
                    <<StorageS, EngineB>>}}

BDocs == {<<>>, <<Doc(<<Eng(EngineB, <<EngineC>>)>>)>>,
          <<Doc(<<Eng(EngineB, <<>>), Eng(Unhandled, <<>>)>>)>>,
          <<Doc(<<Eng(EngineC, <<EngineB>>)>>)>>,
          <<Doc(<<>>)>>}

CDocs == {<<>>, <<Doc(<<Eng(EngineC, <<EngineA>>)>>)>>,
          <<Doc(<<Eng(EngineC, <<Unhandled>>)>>)>>}

S1Docs == {<<>>, <<Doc(<<Sto(StorageS)>>)>>, <<Doc(<<>>)>>}

S2Docs == {<<>>, <<Doc(<<Sto(StorageS)>>)>>}

RefWorlds ==
    {Files((PathA :> a) @@ (PathB :> b) @@ (PathC :> c) @@ (PathS1 :> s1) @@ (PathS2 :> s2)) :
        a \in ADocs, b \in BDocs, c \in CDocs, s1 \in S1Docs, s2 \in S2Docs}

\* documents with <properties> and <component> nodes
PropNodes == {<<>>, <<[k |-> 1]>>, <<[k |-> 1, m |-> 1]>>, <<[k |-> 1], [m |-> 1]>>}

CompRefs == {<<>>, <<"engine_a">>, <<"engine_x">>, <<"comp_y">>, <<"engine_a", "engine_a">>}

Comp(name, fields) == [name |-> name, class |-> "engine", fields |-> fields]

CompDocs == {<<>>,
             <<[macros |-> <<>>, components |-> <<Comp("engine_a", [k |-> 2, j |-> 2])>>]>>,
             <<[macros |-> <<>>, components |-> <<Comp("engine_a", [j |-> 2])>>]>>,
             <<[macros |-> <<>>, components |-> <<Comp("engine_b", [k |-> 2])>>]>>,
             <<[macros |-> <<>>, components |-> <<Comp("engine_a", [k |-> 2]),
                                                  Comp("engine_a", [k |-> 2])>>]>>}

PropWorlds ==
    {Files((PathA :> <<Doc(<<Node(EngineA, "engine", ps, cr, <<>>)>>)>>) @@ (PathCompA :> cd)) :
        ps \in PropNodes, cr \in CompRefs, cd \in CompDocs}

Worlds == RefWorlds \cup PropWorlds

LoadPaths == {PathA, PathB, PathC, PathS1, PathS2}

DbInit ==
    /\ docs \in Worlds
    /\ floader \in FileLoaders
    /\ macros = <<>>
    /\ macros_by_type = <<>>
    /\ dependencies = {}
    /\ db_pc = "idle"
    /\ db_res = DbRes("init", "", "none")
    /\ NoFs
    /\ NoReaders
    /\ NoLang

DbNext ==
    \/ \E path \in LoadPaths : load_macro_xml_file(path) /\ UNCHANGED <<fsVars, rdVars, lgVars>>
    \/ resolve_dependencies /\ UNCHANGED <<fsVars, rdVars, lgVars>>
    \/ resolve_step /\ UNCHANGED <<fsVars, rdVars, lgVars>>

SpecDb == DbInit /\ [][DbNext]_vars

\* the loop of resolve_dependencies runs on once it is entered
FairDb == SpecDb /\ WF_vars(resolve_step /\ UNCHANGED <<fsVars, rdVars, lgVars>>)

----------------------------------------------------------------------------
(* Properties of the filesystem *)

LinesOf(pair) == disk[pair[1]][pair[2]]

\* every line of the index file has 4 fields and an integer size
WellFormed(pair) == \A n \in DOMAIN LinesOf(pair) : LinesOf(pair)[n].fields = 4 /\ LinesOf(pair)[n].numeric

\* line n of the index file declares the file path c
DeclaresAt(pair, n, c) ==
    /\ LinesOf(pair)[n].fields = 4
    /\ LinesOf(pair)[n].numeric
    /\ split_game_path(LowerPath(LinesOf(pair)[n].path)) = c

Declares(pair, c) == \E n \in DOMAIN LinesOf(pair) : DeclaresAt(pair, n, c)

IsLookup == res.op \in {"file_exists", "open_file"}

\* C1: when two pairs i < j of a filesystem both declare the file path p, a
\* lookup of p returns the entry of the higher-numbered pair, never the
\* entry of i: the entry a lookup returns for p is never that of a pair
\* below a well-formed pair that declares p.
C1_HigherPairWins ==
    (IsLookup /\ res.find = "ok" /\ res.entry.kind = "file") =>
        \A j \in DOMAIN disk[res.entry.dat_path[1]] :
            (WellFormed(<<res.entry.dat_path[1], j>>)
                /\ Declares(<<res.entry.dat_path[1], j>>, res.at))
            => j <= res.entry.dat_path[2]

\* C3: loading one index file is all-or-nothing: a _load_cat_file call that
\* does not complete successfully (a line without 4 fields, or a failure
\* while registering its entries) leaves the tree and the loaded set as they
\* were, so it has added no path and its pair is not in the loaded set.
C3_AllOrNothing ==
    \A n \in DOMAIN loads :
        loads[n].ret # "ok" =>
            /\ loads[n].added = {}
            /\ loads[n].pair \notin loaded[loads[n].fs]

\* the walk of _find_entry over a tree as it is, without loading
RECURSIVE Resolve(_, _, _, _)
Resolve(ft, fs, k, parts) ==
    LET node == NodeAt(ft[fs], k) IN
    IF parts = <<>> THEN [owner |-> fs, at |-> k, entry |-> node]
    ELSE IF node.kind = "fs" THEN Resolve(ft, node.name, <<>>, parts)
    ELSE IF node.kind = "dir" /\ Append(k, Head(parts)) \in DOMAIN ft[fs]
    THEN Resolve(ft, fs, Append(k, Head(parts)), Tail(parts))
    ELSE [owner |-> fs, at |-> k, entry |-> NoNode]

\* the paths of the model, as lists of parts
AllParts ==
    {<<>>, <<"a">>, <<"a", "b">>, <<"b">>, <<"extensions">>, <<"extensions", "m">>,
     <<"extensions", "m", "a">>, <<"extensions", "m", "a", "b">>}

\* every registered name is a directory, a file or a mounted filesystem, and
\* only directories have children
TreeShape ==
    \A fs \in FsIds : \A c \in DOMAIN file_tree[fs] :
        /\ file_tree[fs][c].kind \in {"dir", "file", "fs"}
        /\ c # <<>>
        /\ IsDirAt(file_tree[fs], Front(c))

\* C2: each child name of a directory node maps to exactly one of directory,
\* archive entry and mounted filesystem, and no index load, overlay mount or
\* lookup replaces or removes a registered name: a path that resolves to an
\* entry keeps resolving to the same entry.
C2_NeverReplaced ==
    [][/\ TreeShape'
       /\ \A fs \in FsIds : \A c \in DOMAIN file_tree[fs] :
             c \in DOMAIN file_tree'[fs] /\ file_tree'[fs][c] = file_tree[fs][c]
       /\ \A parts \in AllParts :
             Resolve(file_tree, Base, <<>>, parts).entry.kind # "none"
             => Resolve(file_tree', Base, <<>>, parts) = Resolve(file_tree, Base, <<>>, parts)
       /\ (res'.op \in {"file_exists", "open_file"} /\ res'.find = "ok")
             => Resolve(file_tree', Base, <<>>, split_game_path(LowerPath(res'.path)))
                  = [owner |-> res'.owner, at |-> res'.at, entry |-> res'.entry]
      ]_vars

\* an index file was loaded that declares a path already registered from
\* another pair
C2_Witness ==
    \E n \in DOMAIN loads : \E c \in DOMAIN file_tree[loads[n].fs] :
        /\ loads[n].ret = "ok"
        /\ Declares(loads[n].pair, c)
        /\ file_tree[loads[n].fs][c].kind = "file"
        /\ file_tree[loads[n].fs][c].dat_path # loads[n].pair

\* some well-formed line of the pair declares a path below or at c
DeclaresUnder(pair, c) ==
    \E n \in DOMAIN LinesOf(pair) :
        LET p == split_game_path(LowerPath(LinesOf(pair)[n].path)) IN
        /\ LinesOf(pair)[n].fields = 4
        /\ LinesOf(pair)[n].numeric
        /\ Len(p) >= Len(c)
        /\ SubSeq(p, 1, Len(c)) = c

\* C9: a lookup reports a missing segment only after exhausting the
\* archives: the stack of the filesystem that owns the segment is empty, and
\* no pair it loaded declares the segment.
C9_MissingAfterExhausting ==
    (IsLookup /\ res.find = "missing") =>
        /\ data_files[res.owner] = <<>>
        /\ \A pair \in loaded[res.owner] : ~DeclaresUnder(pair, res.at)

\* a lookup popped at least two pairs, one of which failed to parse, before
\* it reported the segment missing
C9_Witness ==
    /\ IsLookup
    /\ res.find = "missing"
    /\ Len(loads) >= 2
    /\ \E n \in DOMAIN loads : loads[n].ret = "false"

\* a lookup that finds every segment in the tree pops and loads nothing
OnDemand ==
    (res'.op \in {"file_exists", "open_file"}
        /\ Resolve(file_tree, Base, <<>>, split_game_path(LowerPath(res'.path))).entry.kind # "none")
    => UNCHANGED <<file_tree, data_files, loaded>>

\* C10 as stated: pairs are loaded only on demand and highest-numbered
\* first: an open/exists whose every segment is already in the tree leaves
\* the stack, the loaded set and the tree unchanged, and pair i is never
\* loaded while a pair j > i of the same filesystem is on the stack.
C10_NoHigherOnStack ==
    [][/\ OnDemand
       /\ \A n \in DOMAIN loads' : \A m \in DOMAIN loads'[n].stack :
             loads'[n].stack[m][1] = loads'[n].pair[1]
             => loads'[n].stack[m][2] < loads'[n].pair[2]
      ]_vars

\* C10: pairs are loaded only on demand and highest-numbered first: an
\* open/exists whose every segment is already in the tree leaves the stack,
\* the loaded set and the tree unchanged, and pair i is never loaded while a
\* pair j > i of the same filesystem that has not been popped before is on
\* the stack (a repeated scan puts popped pairs back on the stack).
C10_OnDemandHighestFirst ==
    [][/\ OnDemand
       /\ \A n \in DOMAIN loads' : \A m \in DOMAIN loads'[n].stack :
             (loads'[n].stack[m][1] = loads'[n].pair[1]
                /\ loads'[n].stack[m][2] > loads'[n].pair[2])
             => loads'[n].stack[m] \in loads'[n].popped
      ]_vars

\* after a repeated scan a lookup loaded pair i while a higher pair, popped
\* before the scan, was on the stack again
C10_Witness ==
    /\ IsLookup
    /\ \E n \in DOMAIN loads : \E m \in DOMAIN loads[n].stack :
          /\ loads[n].ret = "ok"
          /\ loads[n].stack[m][1] = loads[n].pair[1]
          /\ loads[n].stack[m][2] > loads[n].pair[2]
          /\ loads[n].stack[m] \in loads[n].popped

----------------------------------------------------------------------------
(* Properties of the offsets of one index file *)

RECURSIVE SumSizes(_, _)
SumSizes(lines, n) == IF n = 0 THEN 0 ELSE lines[n].size + SumSizes(lines, n - 1)

\* the line an entry of the tree comes from: the first that declares its path
FirstLine(pair, c) ==
    CHOOSE n \in DOMAIN LinesOf(pair) :
        /\ DeclaresAt(pair, n, c)
        /\ \A m \in 1..(n - 1) : ~DeclaresAt(pair, m, c)

\* the paths of the archive entries in the tree of the base filesystem
FileEntries == {c \in DOMAIN file_tree[Base] : file_tree[Base][c].kind = "file"}

\* each entry has the size of its line and the sum of the sizes of all the
\* lines before it as its offset
CumulativeOffsets ==
    \A c \in FileEntries :
        LET e == file_tree[Base][c]
            n == FirstLine(e.dat_path, c)
        IN /\ Declares(e.dat_path, c)
           /\ e.size = LinesOf(e.dat_path)[n].size
           /\ e.offset = SumSizes(LinesOf(e.dat_path), n - 1)

\* the windows [offset, offset + size) of two entries share no byte
NonOverlapping ==
    \A c, d \in FileEntries :
        c # d => \/ file_tree[Base][c].offset + file_tree[Base][c].size <= file_tree[Base][d].offset
                 \/ file_tree[Base][d].offset + file_tree[Base][d].size <= file_tree[Base][c].offset

\* C4 as stated: the registered entries get the cumulative sum of the sizes
\* of all prior lines as offset, and their windows are strictly increasing in
\* offset and pairwise non-overlapping.
C4_StrictlyIncreasing ==
    /\ CumulativeOffsets
    /\ NonOverlapping
    /\ \A c, d \in FileEntries :
          FirstLine(file_tree[Base][c].dat_path, c) < FirstLine(file_tree[Base][d].dat_path, d)
          => file_tree[Base][c].offset < file_tree[Base][d].offset

\* C4: for valid index lines with sizes from 0, the registered entries get
\* the cumulative sum of the sizes of all prior lines (skipped lines
\* included) as offset, their windows are pairwise non-overlapping, and the
\* offsets never decrease in line order; they increase strictly after an
\* entry of positive size.
C4_CumulativeWindows ==
    /\ CumulativeOffsets
    /\ NonOverlapping
    /\ \A c, d \in FileEntries :
          FirstLine(file_tree[Base][c].dat_path, c) < FirstLine(file_tree[Base][d].dat_path, d)
          => /\ file_tree[Base][c].offset <= file_tree[Base][d].offset
             /\ file_tree[Base][c].size > 0
                => file_tree[Base][c].offset < file_tree[Base][d].offset

\* an index file was loaded with a skipped line of positive size before two
\* entries, the first of them of size 0
C4_Witness ==
    \E c, d \in FileEntries :
        /\ c # d
        /\ file_tree[Base][c].size = 0
        /\ file_tree[Base][c].offset > 0
        /\ file_tree[Base][d].offset = file_tree[Base][c].offset
        /\ file_tree[Base][d].size > 0

----------------------------------------------------------------------------
(* Properties of the bounded region reader *)

\* the size S of the region of reader r
RegionSize(r) == reader[r].end - reader[r].start

\* the bytes of the region the blob holds
Stored(r) == Min(RegionSize(r), Max(0, blob_len[Handle(r)] - reader[r].start))

\* the last operation was a read, of readall or of the caller
IsRead == io.op \in {"read", "readinto", "readall", "readall.read"}

\* the bytes a read returns lie in the region, from the position it began at
ReadInRegion ==
    IsRead =>
        /\ io.ret >= 0
        /\ io.from >= reader[io.reader].start
        /\ io.from + io.ret <= reader[io.reader].end
        /\ io.ret <= RegionSize(io.reader)

\* a read that asked for bytes returned none, after reads from the start only
Exhausted ==
    /\ io.op = "read"
    /\ io.err = "none"
    /\ io.arg # 0
    /\ io.ret = 0
    /\ total[io.reader] >= 0

\* C5 as stated: a read returns only bytes of the region from the current
\* position, read(-1) never more than S bytes, and reads repeated from the
\* start until an empty result return exactly S bytes in total.
C5_ExactlyRegion ==
    /\ ReadInRegion
    /\ Exhausted => total[io.reader] = RegionSize(io.reader)

\* C5: a read returns only bytes of the region from the current position,
\* read(-1) never more than S bytes, and reads repeated from the start until
\* an empty result return in total the bytes of the region the blob holds,
\* min(S, max(0, blob length - offset)): exactly S when the blob is not
\* shorter than offset + S.
C5_BoundedRead ==
    /\ ReadInRegion
    /\ Exhausted => total[io.reader] = Stored(io.reader)
    /\ (Exhausted /\ blob_len[Handle(io.reader)] >= reader[io.reader].end)
         => total[io.reader] = RegionSize(io.reader)

\* reads from the start of a region that the blob extends beyond ended with
\* an empty result after S > 0 bytes
C5_Witness ==
    /\ Exhausted
    /\ io.arg = -1
    /\ RegionSize(io.reader) > 0
    /\ total[io.reader] = RegionSize(io.reader)
    /\ blob_len[Handle(io.reader)] > reader[io.reader].end

\* the blob position a seek aims at
SeekTarget ==
    io.arg + (IF io.whence = SEEK_SET THEN reader[io.reader].start
              ELSE IF io.whence = SEEK_CUR THEN io.from
              ELSE reader[io.reader].end)

\* C6: a seek with SEEK_SET, SEEK_CUR or SEEK_END on an open handle never
\* fails, whatever its target: a target before the region becomes its start,
\* one past the end its end, and the position returned by seek and by tell
\* is always in [0, size].
C6_SeekClamped ==
    /\ \A r \in DOMAIN reader : dat_tell(r) - reader[r].start \in 0..RegionSize(r)
    /\ (io.op \in {"seek", "tell"} /\ io.err = "none") =>
          /\ io.ret \in 0..RegionSize(io.reader)
          /\ io.ret = dat_tell(io.reader) - reader[io.reader].start
    /\ (io.op = "tell" /\ ~Closed(io.reader)) => io.err = "none"
    /\ (io.op = "seek" /\ io.whence \in {SEEK_SET, SEEK_CUR, SEEK_END} /\ ~Closed(io.reader)) =>
          /\ io.err = "none"
          /\ io.ret = IF SeekTarget < reader[io.reader].start THEN 0
                      ELSE IF SeekTarget > reader[io.reader].end THEN RegionSize(io.reader)
                      ELSE SeekTarget - reader[io.reader].start

\* a seek relative to the current position aimed past the end of a region
\* the blob extends beyond, and landed on the end
C6_Witness ==
    /\ io.op = "seek"
    /\ io.whence = SEEK_CUR
    /\ io.from > reader[io.reader].start
    /\ SeekTarget > reader[io.reader].end
    /\ io.ret = RegionSize(io.reader)
    /\ blob_len[Handle(io.reader)] > reader[io.reader].end

\* C7: readall always terminates: it stops as soon as the underlying source
\* returns no more data, so after a read of it that asked for bytes and got
\* none it has returned and is not in its loop.
C7_ReadallStops ==
    (io.op = "readall.read" /\ io.arg > 0 /\ io.ret = 0) => pc[io.reader] = "idle"

\* C8: write, writelines and truncate always fail with the 'unsupported'
\* error and change neither the position of the handle nor the blob, and
\* writable returns false.
C8_ReadOnly ==
    [][/\ io'.op \in {"write", "writelines", "truncate"} =>
             /\ io'.err = "NotImplementedError"
             /\ dat_pos' = dat_pos
             /\ blob_len' = blob_len
       /\ io'.op = "writable" => (io'.ret = 0 /\ io'.err = "none")
      ]_vars

\* a write was refused on a reader in the middle of its region
C8_Witness ==
    /\ io.op = "write"
    /\ io.err = "NotImplementedError"
    /\ dat_tell(io.reader) > reader[io.reader].start
    /\ dat_tell(io.reader) < reader[io.reader].end

----------------------------------------------------------------------------
(* Properties of the overlays *)

\* the parts of the path of the last operation
ResParts == split_game_path(LowerPath(res.path))

\* the overlay ext_name is mounted in the base tree
IsMounted(ext_name) ==
    NodeAt(file_tree[Base], <<"extensions", ext_name>>) = Mounted(ext_name)

\* the pairs of a directory, as a set
PairSet(dir) == {<<dir, i>> : i \in DOMAIN disk[dir]}

\* the highest well-formed pair of the directory that declares the file c
HighestDeclaring(dir, c) ==
    CHOOSE pair \in PairSet(dir) :
        /\ WellFormed(pair) /\ Declares(pair, c)
        /\ \A q \in PairSet(dir) : (WellFormed(q) /\ Declares(q, c)) => q[2] <= pair[2]

\* the game root was scanned
Scanned == data_files[Base] # <<>> \/ popped[Base] # {}

\* an index file of the directory declares the file c
DeclaredIn(dir, c) == \E pair \in PairSet(dir) : WellFormed(pair) /\ Declares(pair, c)

\* the last operation looked the file a up, with the game root scanned and
\* the overlay m mounted, where index files of the game root and of the
\* overlay both declare a, and no load raised
BothDeclare(ext_dir) ==
    /\ IsLookup
    /\ ResParts = <<"a">>
    /\ Scanned
    /\ IsMounted("m")
    /\ DeclaredIn(RootDir, <<"a">>)
    /\ DeclaredIn(ext_dir, <<"a">>)
    /\ res.find \notin {"AttributeError", "ValueError"}

\* C11: overlay precedence: when index files of the base and of the mounted
\* overlay m both declare the file a, a lookup of a yields the overlay's
\* entry, from the highest pair of the overlay that declares it.
C11_OverlayOverrides ==
    \A ext_dir \in ExtDirs :
        BothDeclare(ext_dir)
        => /\ res.find = "ok"
           /\ res.owner = "m"
           /\ res.entry.kind = "file"
           /\ res.entry.dat_path = HighestDeclaring(ext_dir, <<"a">>)

\* such a lookup yielded the entry of the base, and left the stack of the
\* overlay as the mount had filled it
C11_BaseAnswers ==
    \E ext_dir \in ExtDirs :
        /\ BothDeclare(ext_dir)
        /\ res.owner = Base
        /\ res.entry.kind = "file"
        /\ res.entry.dat_path = HighestDeclaring(RootDir, <<"a">>)
        /\ data_files["m"] = PairsOf(ext_dir)

\* with the overlay m mounted, a lookup of extensions/m/a for a file a that
\* the overlay declares yields the overlay's entry, from the overlay's own
\* stack, whether or not an index file of the base declares that path
MountPathResolves ==
    \A ext_dir \in ExtDirs :
        (/\ IsLookup
         /\ ResParts = <<"extensions", "m", "a">>
         /\ IsMounted("m")
         /\ DeclaredIn(ext_dir, <<"a">>))
        => /\ res.find = "ok"
           /\ res.owner = "m"
           /\ res.entry.kind = "file"
           /\ res.entry.dat_path = HighestDeclaring(ext_dir, <<"a">>)
           /\ res.ret \in {"true", "ok"}

\* the last operation ended the generator of a directory or of a mounted
\* filesystem
IsListing == res.op = "next" /\ res.find = "ok" /\ res.entry.kind \in {"dir", "fs"}

\* list(d) ends in this step: the generator ends, and nothing else was called
\* since the call of list_files
ListEnds == gen.st \in {"created", "suspended"} /\ gen'.st = "done" /\ Direct /\ IsListing'

\* the filesystem that owns the directory listed, and its path there
ListOwner == IF res.entry.kind = "fs" THEN res.entry.name ELSE res.owner
ListDir == IF res.entry.kind = "fs" THEN <<>> ELSE res.at

\* the names of the files that the loaded pairs of fs declare directly under k
DeclaredUnder(fs, k) ==
    {Last(c) : c \in {c \in (AllParts \ {<<>>}) :
                        /\ Front(c) = k
                        /\ \E pair \in loaded[fs] : Declares(pair, c)}}

\* list(d) has loaded every pair of the owner of d and yielded one entry per
\* file that a loaded pair declares directly under d
C12_Listed ==
    /\ res.ret = "StopIteration"
    /\ data_files[ListOwner] = <<>>
    /\ {e.name : e \in res.listing} = DeclaredUnder(ListOwner, ListDir)
    /\ Cardinality(res.listing) = Cardinality(DeclaredUnder(ListOwner, ListDir))
    /\ \A e \in res.listing : split_game_path(e.path) = ResParts \o <<e.name>>

\* C12: list(d) on a directory, the generator of list_files run to its end
\* with nothing called in between, first loads all the remaining pairs of
\* the filesystem that owns d, whose stack is empty afterwards, and then
\* yields exactly one (full_path, name) per file that a successfully loaded
\* pair of that filesystem declares directly under d.
C12_ListComplete == [][ListEnds => C12_Listed']_vars

\* C13: mounting an overlay under a name that is already a child of the
\* 'extensions' node fails with an error, and the failed mount leaves the
\* existing child, the tree and the stacks unchanged.
C13_MountTwiceFails ==
    [][(res'.op = "load_extension" /\ res'.path \in DOMAIN file_tree[Base])
         => /\ res'.ret = "ValueError"
            /\ UNCHANGED <<file_tree, data_files, loaded>>
      ]_vars

\* a second mount of m was refused while the first, with its pairs not yet
\* loaded, is in place
C13_Witness ==
    /\ res.op = "load_extension"
    /\ res.ret = "ValueError"
    /\ IsMounted("m")
    /\ data_files["m"] # <<>>

\* the names with the letters of s in either case
Casings(s) ==
    CASE s \in {"a", "A"} -> {"a", "A"}
      [] s \in {"b", "B"} -> {"b", "B"}
      [] s \in {"m", "M"} -> {"m", "M"}
      [] s \in {"extensions", "EXTENSIONS"} -> {"extensions", "EXTENSIONS"}
      [] OTHER -> {s}

\* the re-casings of a path: the paths that differ from it in the case of
\* letters only
RECURSIVE Recasings(_)
Recasings(path) ==
    IF path = <<>> THEN {<<>>}
    ELSE {<<s>> \o q : s \in Casings(Head(path)), q \in Recasings(Tail(path))}

\* the lookup that ends the step answered as _find_entry answers r
SameAnswer(r) ==
    /\ res'.find = r.ret
    /\ res'.owner = r.owner
    /\ res'.at = r.at
    /\ res'.entry = r.entry
    /\ res'.ret \in {"true", "ok"} <=> (r.ret = "ok" /\ r.entry.kind = "file")
    /\ file_tree' = r.w.file_tree

\* a lookup of a path answers as the lookup of each of its re-casings would
\* in the same state
C14_Same ==
    IsLookup' =>
        \A parts \in {split_game_path(LowerPath(q)) : q \in Recasings(res'.path)} :
            With(find_entry(World, Base, <<>>, parts), LAMBDA r : SameAnswer(r))

\* C14: lookups are case-insensitive on every segment: file_exists and
\* open_file answer a path as they would answer each of its re-casings,
\* with the same entry, the same error or the same False; this includes the
\* paths below extensions/<name> for an overlay mounted under a name with
\* upper-case letters.
C14_RecasingsAgree == [][C14_Same]_vars

\* with the overlay M mounted, whose index files declare the file a,
\* file_exists answered EXTENSIONS/M/A
C14_Witness ==
    /\ IsMounted("M")
    /\ res.op = "file_exists"
    /\ res.path = <<"EXTENSIONS", "M", "A">>
    /\ \E ext_dir \in ExtDirs : DeclaredIn(ext_dir, <<"a">>)
    /\ res.ret = "false"

\* C15: get_extensions returns exactly the names of the overlays mounted
\* with load_extension, whatever index files have been loaded.
C15_ExactlyMounted ==
    res.op = "get_extensions" =>
        /\ res.ret = "ok"
        /\ {e.name : e \in res.listing} = {n \in MountNames : IsMounted(n)}

----------------------------------------------------------------------------
(* Properties of the record database *)

\* resolve_dependencies has returned
Returned == db_pc = "idle" /\ db_res.op = "resolve_dependencies"

Names(t_macros) == {t_macros[i] : i \in DOMAIN t_macros}

\* no name is twice in the list of a type
Once(by_type) ==
    \A t \in DOMAIN by_type : \A i, j \in DOMAIN by_type[t] :
        by_type[t][i] = by_type[t][j] => i = j

\* the documents of the cycle A -> B -> C -> A and no other file
CycleWorld ==
    docs = (PathA :> Doc(<<Eng(EngineA, <<EngineB>>)>>))
           @@ (PathB :> Doc(<<Eng(EngineB, <<EngineC>>)>>))
           @@ (PathC :> Doc(<<Eng(EngineC, <<EngineA>>)>>))

C16_Result ==
    (CycleWorld /\ Returned /\ EngineA \in DOMAIN macros) =>
        /\ db_res.ret = "true"
        /\ DOMAIN macros = {EngineA, EngineB, EngineC}
        /\ DOMAIN macros_by_type = {"engine"}
        /\ Names(macros_by_type["engine"]) = {EngineA, EngineB, EngineC}

C16_Once ==
    (CycleWorld /\ db_pc = "resolving" /\ Once(macros_by_type)) => Once(macros_by_type')

\* C16: with the documents of the cycle A -> B -> C -> A, a call of
\* resolve_dependencies after A was loaded returns, it returns true with
\* exactly A, B and C in the mapping and in the list of their type, and no
\* iteration of its loop puts a name into a list a second time.
C16_CycleResolves ==
    /\ []C16_Result
    /\ [][C16_Once]_vars
    /\ ((CycleWorld /\ db_pc = "resolving") ~> Returned)

\* A was loaded, the call has returned true and each name is once in the list
C16_Witness ==
    /\ CycleWorld
    /\ Returned
    /\ db_res.ret = "true"
    /\ macros_by_type = ("engine" :> <<EngineA, EngineB, EngineC>>)

\* the names the records of the mapping refer to
Refs ==
    UNION {{macros[n].connections[i][2] : i \in DOMAIN macros[n].connections} :
           n \in DOMAIN macros}

\* no path of the name is the path of a file
Unloadable(name) == first_existing(resolve_macro_xml_path(name), 1) = ""

\* the names the macro nodes of a file define
DocNames(path) == {docs[path].macros[i].name : i \in DOMAIN docs[path].macros}

\* no file defines the name
Undefined(name) == \A path \in DOMAIN docs : name \notin DocNames(path)

\* C17 as stated: whenever a record refers to a name whose path cannot be
\* resolved or is no file, resolve_dependencies returns false and the name is
\* not in the mapping.
C17_AnyUnloadable ==
    Returned => \A d \in Refs : Unloadable(d) => (db_res.ret = "false" /\ d \notin DOMAIN macros)

C17_Result ==
    Returned =>
        \A d \in Refs : (Unloadable(d) /\ Undefined(d)) =>
            (db_res.ret = "false" /\ d \notin DOMAIN macros)

C17_Stops ==
    (db_pc = "resolving" /\ dependencies' = dependencies) => Returned'

\* C17: a call of resolve_dependencies returns whatever the documents are; it
\* returns at the first iteration that leaves the pending set as it was; and
\* when a record refers to a name whose path cannot be resolved or is no
\* file, and which no file defines under another path, it returns false and
\* the name is not in the mapping.
C17_UnresolvableFails ==
    /\ []C17_Result
    /\ [][C17_Stops]_vars
    /\ (db_pc = "resolving" ~> Returned)

\* a call has returned false after it loaded engine_b_macro, with the
\* unhandled name still referred to and in no file
C17_Witness ==
    /\ Returned
    /\ db_res.ret = "false"
    /\ Unhandled \in Refs
    /\ Undefined(Unhandled)
    /\ Unhandled \in dependencies
    /\ DOMAIN macros = {EngineA, EngineB}

\* the file that is loaded for the name exists and defines the name
LoadableAt(name, path) == path # "" /\ name \in DocNames(path)

Loadable(name) == LoadableAt(name, first_existing(resolve_macro_xml_path(name), 1))

\* C18: when resolve_dependencies returns, every name a record of the
\* mapping refers to, whose first existing path is a file that defines the
\* name, is in the mapping, whatever became of the other names.
C18_LoadableLoaded ==
    Returned => \A d \in Refs : Loadable(d) => d \in DOMAIN macros

\* C18 as stated: when resolve_dependencies returns, every name a record of
\* the mapping refers to, one of whose paths is a file that defines the name,
\* is in the mapping.
C18_AnyDefining ==
    Returned =>
        \A d \in Refs :
            (\E i \in DOMAIN resolve_macro_xml_path(d) :
                /\ resolve_macro_xml_path(d)[i] \in DOMAIN docs
                /\ d \in DocNames(resolve_macro_xml_path(d)[i]))
            => d \in DOMAIN macros

\* the call returned false with the unhandled name pending, and it loaded
\* engine_b_macro in one iteration and engine_c_macro in the next
C18_Witness ==
    /\ Returned
    /\ db_res.ret = "false"
    /\ dependencies = {Unhandled}
    /\ macros_by_type = ("engine" :> <<EngineA, EngineB, EngineC>>)
    /\ Loadable(EngineB)
    /\ Loadable(EngineC)

\* C19: resolve_dependencies returns true exactly when the pending set is
\* empty as it returns, and then every name a record of the mapping refers to
\* is a key of the mapping.
C19_TrueIffClosed ==
    Returned =>
        /\ db_res.ret \in {"true", "false"}
        /\ db_res.ret = "true" <=> dependencies = {}
        /\ db_res.ret = "true" => Refs \subseteq DOMAIN macros

\* the call returned true after it loaded the storage macro and the engine
\* macros the records refer to
C19_Witness ==
    /\ Returned
    /\ db_res.ret = "true"
    /\ dependencies = {}
    /\ StorageS \in Refs
    /\ DOMAIN macros = {EngineA, EngineB, EngineC, StorageS}

\* the keys both extractions set keep the value macro_props gives them
KeepsMacroValues(properties, macro_props, comp_props) ==
    \A k \in DOMAIN macro_props \cap DOMAIN comp_props :
        k \in DOMAIN properties /\ properties[k] = macro_props[k]

\* C20: a record loaded from a macro node with one <properties> node and one
\* <component> node keeps, for every key that both the macro extraction and
\* the component extraction set, the value of the macro extraction.
C20_MacroValueKept ==
    \A path \in DOMAIN docs : \A i \in DOMAIN docs[path].macros :
        LET node == docs[path].macros[i] IN
        (/\ db_res.op = "load_macro_xml_file"
         /\ db_res.path = path
         /\ db_res.ret = "none"
         /\ Len(node.properties) = 1
         /\ Len(node.component) = 1) =>
            KeepsMacroValues(macros[node.name].properties,
                             macro_parser(node.properties[1]),
                             load_component_propertie(node.component[1]))

\* every record of the mapping is the same record after the step
RecordsKept == \A n \in DOMAIN macros : n \in DOMAIN macros' /\ macros'[n] = macros[n]

\* C21: whatever files are loaded and whenever dependencies are resolved,
\* no name is twice in the list of a type and the record stored under a name
\* is never replaced.
C21_Memoized ==
    /\ []Once(macros_by_type)
    /\ [][RecordsKept]_vars

C30_Disjoint == db_pc = "idle" => dependencies \cap DOMAIN macros = {}

C30_LeavesLoaded == \A n \in dependencies \ dependencies' : n \in DOMAIN macros'

\* C30: after every call of load_macro_xml_file and of resolve_dependencies
\* no pending name is a key of the mapping, and a name that leaves the
\* pending set in a step is a key of the mapping after the step.
C30_PendingInvariant ==
    /\ []C30_Disjoint
    /\ [][C30_LeavesLoaded]_vars

\* a call has returned after the storage macro left the pending set for the
\* mapping, with a name that cannot be loaded still pending
C30_Witness ==
    /\ Returned
    /\ StorageS \in DOMAIN macros
    /\ StorageS \in Refs
    /\ dependencies # {}
    /\ \A d \in dependencies : Unloadable(d)

----------------------------------------------------------------------------
(* Properties of the line operations and of shared handles *)

\* C28: a readline or readlines that begins at a position in [0, size]
\* returns no byte at or after the end of the region.
C28_LinesInRegion ==
    (/\ io.op \in {"readline", "readlines"}
     /\ io.from - reader[io.reader].start \in 0..RegionSize(io.reader)) =>
        io.from + io.ret <= reader[io.reader].end

\* no other reader is over the handle of reader q
Sole(q) == \A r \in DOMAIN reader : r # q => Handle(r) # Handle(q)

\* the position at which the last operation left the handle of its reader
LeftAt ==
    IF io.op \in {"read", "readinto"} THEN io.from + io.ret
    ELSE IF io.op = "seek" /\ io.err = "none" THEN reader[io.reader].start + io.ret
    ELSE io.from

\* a read, seek or tell of one reader moves every reader over the same
\* handle to where it leaves the handle, and no reader over another handle
C27_Moves ==
    io'.op \in {"read", "readinto", "seek", "tell"} =>
        \A q \in DOMAIN reader :
            IF Handle(q) = Handle(io'.reader)
            THEN dat_tell(q)' = LeftAt'
            ELSE dat_tell(q)' = dat_tell(q)

\* close, or the collection of a reader, closes the handle of its reader for
\* every reader over it, and no other handle
C27_Closes ==
    io'.op \in {"close", "__del__"} =>
        \A q \in DOMAIN reader :
            Closed(q)' = (Closed(q) \/ Handle(q) = Handle(io'.reader))

\* open_file returns a reader exactly when it finds a file; the reader is at
\* the start of the region of the entry found, over a handle of its own
C27_Fresh ==
    res'.op = "open_file" /\ res' # res =>
        IF res'.ret = "ok"
        THEN /\ Len(reader') = Len(reader) + 1
             /\ io' = Io("open_file", Len(reader'), res'.entry.offset, 0,
                         res'.entry.offset, "none")
             /\ reader'[Len(reader')].start = res'.entry.offset
             /\ reader'[Len(reader')].end = res'.entry.offset + res'.entry.size
             /\ dat_pos'[reader'[Len(reader')].dat_file] = res'.entry.offset
             /\ ~closed'[reader'[Len(reader')].dat_file]
             /\ blob_len'[reader'[Len(reader')].dat_file] = DatLen(res'.entry.dat_path)
             /\ \A q \in DOMAIN reader :
                   /\ Handle(q) # reader'[Len(reader')].dat_file
                   /\ dat_tell(q)' = dat_tell(q)
                   /\ Closed(q)' = Closed(q)
        ELSE UNCHANGED rdVars

\* C27: an operation of a reader leaves the shared handle, and with it every
\* reader over that handle, at its own position, and closing one closes the
\* handle for all of them; readers over other handles stay where they are
\* and stay open, every open_file gives a handle no other reader is over,
\* and a reader that is alone over its handle is always inside its window.
C27_SharedHandle ==
    /\ [][C27_Moves]_vars
    /\ [][C27_Closes]_vars
    /\ [][C27_Fresh]_vars
    /\ [](\A q \in DOMAIN reader :
             Sole(q) => dat_tell(q) - reader[q].start \in 0..RegionSize(q))

\* a read of a reader that shares its handle began before its window, where
\* the other reader had left the handle, and returned bytes
C27_Witness ==
    /\ io.op = "read"
    /\ ~Sole(io.reader)
    /\ io.from < reader[io.reader].start
    /\ io.ret > 0

----------------------------------------------------------------------------
(* Lazy loading against loading everything first *)

\* the trees once the base filesystem and the overlay have loaded every pair
\* left on their stacks, highest first; ok when no load raised
EagerDone(rb, rm) == [ok |-> ~Raised(rb) /\ ~Raised(rm), file_tree |-> rm.w.file_tree]

EagerOverlay(rb) == EagerDone(rb, load_all(rb.w, "m"))

Eager == EagerOverlay(load_all(World, Base))

\* the lookup that ends the step answers as the walk over the trees e does
SameAsEager(e, a) ==
    e.ok =>
        /\ res'.find \notin {"AttributeError", "ValueError"}
        /\ res'.ret \in {"true", "ok"} <=> a.entry.kind = "file"
        /\ res'.ret \in {"true", "ok"} => res'.entry = a.entry

AnswerIn(e, parts) == SameAsEager(e, Resolve(e.file_tree, Base, <<>>, parts))

\* a lookup answers as a filesystem that loaded all its pairs beforehand
C29_Eager == IsLookup' => AnswerIn(Eager, split_game_path(LowerPath(res'.path)))

\* a lookup asked again at once gets the same answer
C29_Again ==
    (IsLookup /\ IsLookup' /\ res'.op = res.op /\ res'.path = res.path) =>
        (res'.ret = res.ret /\ res'.entry = res.entry)

\* C29: whatever was looked up before, file_exists and open_file answer as a
\* filesystem that loaded all its pairs highest first without replacing
\* entries would, so a lookup asked twice in a row gets the same answer twice.
C29_LazyTransparent ==
    /\ [][C29_Again]_vars
    /\ [][C29_Eager]_vars

----------------------------------------------------------------------------
(* LanguageResolver (src/lang.py).  A string is a sequence of one-character *)
(* strings; a language tree is the sequence, in document order, of its      *)
(* page/t elements [page_id, t_id, text].                                   *)

\* the characters \d matches: the decimal digits of every script, as far as
\* a string literal can be written with them.  The
\* page and text ids keep their characters (line 73 formats them into the
\* query as matched), so a digit of another script is a digit and no "0"-"9"
Digits ==
    {"0", "1", "2", "3", "4", "5", "6", "7", "8", "9",
     "۰", "۱", "۲", "۳", "۴", "۵", "۶", "۷", "۸", "۹", "߀", "߁", "߂", "߃",
     "߄", "߅", "߆", "߇", "߈", "߉", "০", "১", "২", "৩", "৪", "৫", "৬", "৭",
     "৮", "৯", "૦", "૧", "૨", "૩", "૪", "૫", "૬", "૭", "૮", "૯", "௦", "௧",
     "௨", "௩", "௪", "௫", "௬", "௭", "௮", "௯", "೦", "೧", "೨", "೩", "೪", "೫",
     "೬", "೭", "೮", "೯", "෦", "෧", "෨", "෩", "෪", "෫", "෬", "෭", "෮", "෯",
     "໐", "໑", "໒", "໓", "໔", "໕", "໖", "໗", "໘", "໙", "႐", "႑", "႒", "႓",
     "႔", "႕", "႖", "႗", "႘", "႙", "០", "១", "២", "៣", "៤", "៥", "៦", "៧",
     "៨", "៩", "᧐", "᧑", "᧒", "᧓", "᧔", "᧕", "᧖", "᧗", "᧘", "᧙", "᪀", "᪁",
     "᪂", "᪃", "᪄", "᪅", "᪆", "᪇", "᪈", "᪉", "᪐", "᪑", "᪒", "᪓", "᪔", "᪕",
     "᪖", "᪗", "᪘", "᪙", "᮰", "᮱", "᮲", "᮳", "᮴", "᮵", "᮶", "᮷", "᮸", "᮹",
     "꣐", "꣑", "꣒", "꣓", "꣔", "꣕", "꣖", "꣗", "꣘", "꣙", "꧐", "꧑", "꧒", "꧓",
     "꧔", "꧕", "꧖", "꧗", "꧘", "꧙", "꧰", "꧱", "꧲", "꧳", "꧴", "꧵", "꧶", "꧷",
     "꧸", "꧹", "꯰", "꯱", "꯲", "꯳", "꯴", "꯵", "꯶", "꯷", "꯸", "꯹"}
\* the characters \s matches and str.strip() removes: space, \t, \n, \r,
\* \f, then \x0b, \x1c, \x1d, \x1e, \x1f, \x85, \xa0 and U+1680.  To the
\* code U+2000 to U+200A, U+2028, U+2029, U+202F, U+205F and U+3000 are
\* whitespace too; a string literal cannot be written with them, so no text
\* here contains one
Whitespace ==
    {" ", "\t", "\n", "\r", "\f",
     "", "", "", "", "", "", " ", " "}
\* the text of an element without text, and the template None
NoneText == <<"None">>
\* what a pass yields when re.sub is handed a text that is None
TypeError == <<"TypeError">>
\* no match of the field pattern at a position
NoMatch == [start |-> 0, end |-> 0, page_id |-> <<>>, t_id |-> <<>>]

\* the first position from i on that holds no character of the class: where
\* a greedy \s* or \d* stops
skip(s, i, class) ==
    LET stop[j \in 1..(Len(s) + 2)] ==
            IF j <= Len(s) /\ s[j] \in class THEN stop[j + 1] ELSE j
    IN  stop[i]

\* the character c stands at position i
at(s, i, c) == i >= 1 /\ i <= Len(s) /\ s[i] = c

\* the match of \{\s*(\d+)\s*,\s*(\d+)\s*\} that starts at position i
match_field(s, i) ==
    IF ~at(s, i, "{") THEN NoMatch
    ELSE With(skip(s, i + 1, Whitespace), LAMBDA a :
         With(skip(s, a, Digits), LAMBDA b :
         With(skip(s, b, Whitespace), LAMBDA c :
         IF b = a \/ ~at(s, c, ",") THEN NoMatch
         ELSE With(skip(s, c + 1, Whitespace), LAMBDA d :
              With(skip(s, d, Digits), LAMBDA e :
              With(skip(s, e, Whitespace), LAMBDA f :
              IF e = d \/ ~at(s, f, "}") THEN NoMatch
              ELSE [start |-> i, end |-> f,
                    page_id |-> SubSeq(s, a, b - 1),
                    t_id |-> SubSeq(s, d, e - 1)]))))))

\* the first unescaped ")" from position i on that "." can reach (0 if none):
\* where the lazy .*? followed by (?<!\\)\) stops
close_comment(s, i) ==
    LET closing[j \in 2..(Len(s) + 1)] ==
            IF j > Len(s) THEN 0
            ELSE IF s[j] = ")" /\ s[j - 1] # "\\" THEN j
            ELSE IF s[j] = "\n" THEN 0
            ELSE closing[j + 1]
    IN  closing[i]

\* the end of the match of (?<!\\)\(.*?(?<!\\)\) that starts at i (0 if none)
match_comment(s, i) ==
    IF at(s, i, "(") /\ ~at(s, i - 1, "\\") THEN close_comment(s, i + 1) ELSE 0

\* re.sub(r'(?<!\\)\(.*?(?<!\\)\)', '', s) from position i on
drop_comments(s, i) ==
    LET drop[j \in 1..(Len(s) + 1)] ==
            IF j > Len(s) THEN <<>>
            ELSE With(match_comment(s, j), LAMBDA end :
                 IF end = 0 THEN <<s[j]>> \o drop[j + 1]
                 ELSE drop[end + 1])
    IN  drop[i]

\* line 87: the text without its unescaped parenthetical comments
strip_comments(text) ==
    IF text = NoneText THEN TypeError ELSE drop_comments(text, 1)

\* lang_tree.xpath("./page[@id='..']/t[@id='..']")
xpath(lang_tree, page_id, t_id) ==
    SelectSeq(lang_tree, LAMBDA n : n.page_id = page_id /\ n.t_id = t_id)

\* a variant that drops a field without an entry
resolve_field_drop(lang_tree, s, match) ==
    With(xpath(lang_tree, match.page_id, match.t_id), LAMBDA text_nodes :
        IF text_nodes = <<>> THEN <<>>
        ELSE strip_comments(text_nodes[1].text))

\* resolve_string's resolve_field: the replacement of one matched field
resolve_field(lang_tree, s, match) ==
    With(xpath(lang_tree, match.page_id, match.t_id), LAMBDA text_nodes :
        IF text_nodes = <<>> THEN SubSeq(s, match.start, match.end)
        ELSE strip_comments(text_nodes[1].text))

\* line 97: re.sub of the field pattern with resolve_field, from position i
sub_fields(lang_tree, s, i) ==
    LET sub[j \in 1..(Len(s) + 1)] ==
            IF j > Len(s) THEN <<>>
            ELSE With(match_field(s, j), LAMBDA match :
                 IF match.end = 0 THEN <<s[j]>> \o sub[j + 1]
                 ELSE resolve_field(lang_tree, s, match) \o sub[match.end + 1])
    IN  sub[i]

\* re.sub(r'\\(.)', r'\1', s) from position i on
unescape_from(s, i) ==
    LET rest[j \in 1..(Len(s) + 1)] ==
            IF j > Len(s) THEN <<>>
            ELSE IF s[j] = "\\" /\ j < Len(s) /\ s[j + 1] # "\n"
                 THEN <<s[j + 1]>> \o rest[j + 2]
                 ELSE <<s[j]>> \o rest[j + 1]
    IN  rest[i]

\* line 101: every backslash-prefixed character without its backslash
unescape(s) == unescape_from(s, 1)

\* the last position up to i that holds no whitespace (0 if none)
skip_back(s, i) ==
    LET back[j \in 0..Len(s)] ==
            IF j >= 1 /\ s[j] \in Whitespace THEN back[j - 1] ELSE j
    IN  back[i]

\* str.strip()
strip(s) == SubSeq(s, skip(s, 1, Whitespace), skip_back(s, Len(s)))

\* lines 100-105: the value returned once the loop is over
finish(text_new, do_strip) ==
    With(unescape(text_new), LAMBDA text :
        IF do_strip THEN strip(text) ELSE text)

\* a language file with comments, escapes, chains, an element without
\* text, a repeated element, cyclic references, pieces of fields and a page
\* numbered in Extended Arabic-Indic digits
EnTree ==
    << [page_id |-> <<"1", "0">>, t_id |-> <<"2", "0">>,
       text |-> <<"A", "l", "p", "h", "a">>],
       [page_id |-> <<"1", "0">>, t_id |-> <<"2", "1">>,
       text |-> <<"B", "e", "t", "a", " ", "(", "x", ")">>],
       [page_id |-> <<"1", "0">>, t_id |-> <<"2", "2">>,
       text |-> <<"A", "\\", "(", "B", "\\", ")">>],
       [page_id |-> <<"1", "0">>, t_id |-> <<"2", "3">>,
       text |-> <<"{", "1", "0", ",", "2", "0", "}", "!">>],
       [page_id |-> <<"1", "0">>, t_id |-> <<"2", "4">>,
       text |-> NoneText],
       [page_id |-> <<"1", "0">>, t_id |-> <<"2", "5">>,
       text |-> <<"a", "(", "b", "\\", ")", "c", ")", "d">>],
       [page_id |-> <<"1", "0">>, t_id |-> <<"2", "6">>,
       text |-> <<"a", "\\", "(", "(", "b", ")", "\\", ")">>],
       [page_id |-> <<"1", "0">>, t_id |-> <<"2", "7">>,
       text |-> <<"(", "c", ")", "{", "1", "0", ",", "2", "1", "}">>],
       [page_id |-> <<"1", "0">>, t_id |-> <<"2", "8">>,
       text |-> <<"{", " ", "1", "0", " ", ",", " ", "2", "3", " ", "}",
               "?">>],
       [page_id |-> <<"1", "0">>, t_id |-> <<"2", "0">>,
       text |-> <<"S", "e", "c", "o", "n", "d">>],
       [page_id |-> <<"1">>, t_id |-> <<"1">>,
       text |-> <<"{", "1", ",", "2", "}">>],
       [page_id |-> <<"1">>, t_id |-> <<"2">>,
       text |-> <<"{", "1", ",", "1", "}">>],
       [page_id |-> <<"1">>, t_id |-> <<"3">>,
       text |-> <<"{", "1", ",", "3", "}">>],
       [page_id |-> <<"1">>, t_id |-> <<"4">>,
       text |-> <<"x", "{", "1", ",", "4", "}">>],
       [page_id |-> <<"2">>, t_id |-> <<"1">>,
       text |-> <<"2", "}">>],
       [page_id |-> <<"2">>, t_id |-> <<"2">>,
       text |-> <<"{", "2", ",", "{", "2", ",", "1", "}">>],
       [page_id |-> <<"۱">>, t_id |-> <<"1">>,
       text |-> <<"D", "i", "g", "i", "t">>] >>

\* a second language file with other texts
DeTree ==
    << [page_id |-> <<"1", "0">>, t_id |-> <<"2", "0">>,
       text |-> <<"A", "l", "f", "a">>],
       [page_id |-> <<"1", "0">>, t_id |-> <<"2", "1">>,
       text |-> <<"B", "e", "t", "a">>],
       [page_id |-> <<"1", "0">>, t_id |-> <<"2", "3">>,
       text |-> <<"{", "1", "0", ",", "2", "0", "}", "?">>] >>

\* ''
EmptyTemplate == <<>>

\* 'Ship {10,20} and {10,21}(ignored) end'
ShipTemplate == <<"S", "h", "i", "p", " ", "{", "1", "0", ",", "2", "0", "}", " ", "a",
    "n", "d", " ", "{", "1", "0", ",", "2", "1", "}", "(", "i", "g", "n",
    "o", "r", "e", "d", ")", " ", "e", "n", "d">>

\* '{10,22}'
EscapedTemplate == <<"{", "1", "0", ",", "2", "2", "}">>

\* 'a{10,99}b{10,20}'
MissingTemplate == <<"a", "{", "1", "0", ",", "9", "9", "}", "b", "{", "1", "0", ",", "2",
    "0", "}">>

\* '{ 10 , 28 }'
DeepTemplate == <<"{", " ", "1", "0", " ", ",", " ", "2", "8", " ", "}">>

\* '{1,1}'
CycleTemplate == <<"{", "1", ",", "1", "}">>

\* '{1,3}'
SelfTemplate == <<"{", "1", ",", "3", "}">>

\* '{1,4}'
GrowTemplate == <<"{", "1", ",", "4", "}">>

\* '{10,24}'
NoTextTemplate == <<"{", "1", "0", ",", "2", "4", "}">>

\* '\r\x0b {\x1c10\x1d,\f\x8520\u1680}\t\x1e\xa0\x1f': a field between
\* whitespace, with whitespace inside
SpacedTemplate ==
    <<"\r", "", " ", "{", "", "1", "0", "", ",", "\f", "",
      "2", "0", " ", "}", "\t", "", " ", "">>

\* '{\u06f1,1}': a field whose page id is written in other digits
DigitTemplate == <<"{", "۱", ",", "1", "}">>

\* '{10,25}'
InsideTemplate == <<"{", "1", "0", ",", "2", "5", "}">>

\* '{10,26}'
BetweenTemplate == <<"{", "1", "0", ",", "2", "6", "}">>

\* 'x'
PlainTemplate == <<"x">>

\* '{10,27}'
LeadingTemplate == <<"{", "1", "0", ",", "2", "7", "}">>

\* 'a\\\nb\\'
BackslashTemplate == <<"a", "\\", "\n", "b", "\\">>

\* '{1,1}{10,24}'
CycleNoTextTemplate == <<"{", "1", ",", "1", "}", "{", "1", "0", ",", "2",
                       "4", "}">>

\* '{2,{2,1}'
PiecesTemplate == <<"{", "2", ",", "{", "2", ",", "1", "}">>

Templates ==
    {EmptyTemplate, ShipTemplate, EscapedTemplate,
     MissingTemplate, DeepTemplate, CycleTemplate,
     SelfTemplate, GrowTemplate, NoTextTemplate,
     SpacedTemplate, InsideTemplate, BetweenTemplate,
     PlainTemplate, LeadingTemplate, BackslashTemplate,
     CycleNoTextTemplate, PiecesTemplate, DigitTemplate}

\* what a LanguageResolver operation answered: ret is "none", "value",
\* "running", "KeyError" or "TypeError"
LgRes(op, template, lang_name, do_strip, ret, text) ==
    [op |-> op, template |-> template, lang_name |-> lang_name,
     strip |-> do_strip, ret |-> ret, text |-> text]

\* load_lang_file(lang_name, lang_file), lang_file holding the tree
load_lang_file(lang_name, lang_file) ==
    /\ lg_pc = "idle"
    /\ lang_trees' = (lang_name :> lang_file) @@ lang_trees
    /\ default_lang' = IF default_lang = "None" THEN lang_name
                       ELSE default_lang
    /\ lg_res' = LgRes("load_lang_file", <<>>, lang_name, FALSE, "none", <<>>)
    /\ UNCHANGED <<lg_pc, rs>>

\* set_default_lang(lang_name)
set_default_lang(lang_name) ==
    /\ lg_pc = "idle"
    /\ default_lang' = lang_name
    /\ lg_res' = LgRes("set_default_lang", <<>>, lang_name, FALSE, "none",
                       <<>>)
    /\ UNCHANGED <<lang_trees, lg_pc, rs>>

\* lines 61-62: the language a call uses
language(lang_name) == IF lang_name = "None" THEN default_lang ELSE lang_name

\* resolve_string(template, lang_name, strip) up to the loop (lines 58-90);
\* lang_name "None" is the omitted argument
resolve_string(template, lang_name, do_strip) ==
    /\ lg_pc = "idle"
    /\ IF template \in {<<>>, NoneText}
       THEN /\ lg_res' = LgRes("resolve_string", template, lang_name,
                               do_strip, "value", template)
            /\ UNCHANGED <<lg_pc, rs>>
       ELSE IF language(lang_name) \notin DOMAIN lang_trees
       THEN /\ lg_res' = LgRes("resolve_string", template, lang_name,
                               do_strip, "KeyError", <<>>)
            /\ UNCHANGED <<lg_pc, rs>>
       ELSE /\ lg_pc' = "resolving"
            /\ rs' = [lang_name |-> language(lang_name),
                      lang_tree |-> lang_trees[language(lang_name)],
                      text_old |-> NoneText, text_new |-> template]
            /\ lg_res' = LgRes("resolve_string", template, lang_name,
                               do_strip, "running", <<>>)
    /\ UNCHANGED <<lang_trees, default_lang>>

\* the end of one pass of the loop: the pass raised, or its text is kept
pass_done(new) ==
    IF \E k \in 1..Len(new) : new[k] = "TypeError"
    THEN /\ lg_pc' = "idle"
         /\ rs' = <<>>
         /\ lg_res' = [lg_res EXCEPT !.ret = "TypeError"]
    ELSE /\ rs' = [rs EXCEPT !.text_old = rs.text_new, !.text_new = new]
         /\ UNCHANGED <<lg_pc, lg_res>>

\* a variant of the loop that stops after its first pass
resolve_pass_once ==
    /\ lg_pc = "resolving"
    /\ Len(rs.text_new) <= MaxText
    /\ IF rs.text_old = NoneText
       THEN \E new \in {sub_fields(rs.lang_tree, rs.text_new, 1)} :
                pass_done(new)
       ELSE /\ lg_pc' = "idle"
            /\ rs' = <<>>
            /\ lg_res' = [lg_res EXCEPT !.ret = "value",
                              !.text = finish(rs.text_new, lg_res.strip)]
    /\ UNCHANGED <<lang_trees, default_lang>>

\* one test of the loop of resolve_string (line 93), followed by one pass
\* (lines 94-98) or by the way out (lines 100-105)
resolve_pass ==
    /\ lg_pc = "resolving"
    /\ Len(rs.text_new) <= MaxText
    /\ IF rs.text_new # rs.text_old
       THEN \E new \in {sub_fields(rs.lang_tree, rs.text_new, 1)} :
                pass_done(new)
       ELSE /\ lg_pc' = "idle"
            /\ rs' = <<>>
            /\ lg_res' = [lg_res EXCEPT !.ret = "value",
                              !.text = finish(rs.text_new, lg_res.strip)]
    /\ UNCHANGED <<lang_trees, default_lang>>

\* the names languages are loaded under, and the names calls ask for
LoadNames == {"en", "de"}
LangNames == {"None", "en", "de", "fr"}

LangNext ==
    \/ \E lang_name \in LoadNames, lang_file \in {EnTree, DeTree} :
          load_lang_file(lang_name, lang_file) /\ UNCHANGED <<fsVars, rdVars, dbVars>>
    \/ \E lang_name \in LangNames :
          set_default_lang(lang_name) /\ UNCHANGED <<fsVars, rdVars, dbVars>>
    \/ \E template \in Templates, lang_name \in LangNames, do_strip \in BOOLEAN :
          resolve_string(template, lang_name, do_strip) /\ UNCHANGED <<fsVars, rdVars, dbVars>>
    \/ resolve_pass /\ UNCHANGED <<fsVars, rdVars, dbVars>>

LangInit == NoFs /\ NoReaders /\ NoDb /\ NoLang

SpecLang == LangInit /\ [][LangNext]_vars

\* the loop of a running call is not held up by anything else
FairLang == SpecLang /\ WF_vars(resolve_pass /\ UNCHANGED <<fsVars, rdVars, dbVars>>)

----------------------------------------------------------------------------
(* Properties of string resolution *)

\* the step on which a running resolve_string returns its value
ReturnsValue == lg_pc = "resolving" /\ lg_pc' = "idle" /\ lg_res'.ret = "value"

\* the step that is a call of resolve_string
Called == lg_pc = "idle" /\ lg_res'.op = "resolve_string"

\* C22: when resolve_string returns, every unescaped parenthetical comment of
\* the whole resolved string has been removed, those of the template
\* included: the text handed to the final unescape holds no such comment.
C22_CommentsRemoved ==
    [][ReturnsValue => strip_comments(rs.text_new) = rs.text_new]_vars

\* C25: a call of resolve_string whose language (the one given or, when none
\* is given, the default) is not loaded raises KeyError, whatever the
\* template, and a call that goes on works on the tree of that language.
C25_UnloadedRaises ==
    [][Called =>
          /\ language(lg_res'.lang_name) \notin DOMAIN lang_trees
                => lg_res'.ret = "KeyError"
          /\ lg_pc' = "resolving"
                => rs'.lang_tree = lang_trees[language(lg_res'.lang_name)]]_vars

\* the positions of s where a field starts
Fields(s) == {i \in 1..Len(s) : match_field(s, i).end # 0}

\* the field at position i as it is written
FieldText(s, i) == SubSeq(s, i, match_field(s, i).end)

\* the field at position i of s has an entry in the tree
HasEntry(lang_tree, s, i) ==
    xpath(lang_tree, match_field(s, i).page_id, match_field(s, i).t_id) # <<>>

\* the fields of s that have no entry in the tree
Missing(lang_tree, s) == {i \in Fields(s) : ~HasEntry(lang_tree, s, i)}

\* sub is a piece of s
Occurs(sub, s) ==
    \E k \in 0..(Len(s) - Len(sub)) : SubSeq(s, k + 1, k + Len(sub)) = sub

\* the <<page, text>> pairs the fields of s name
Keys(s) == {<<match_field(s, i).page_id, match_field(s, i).t_id>> : i \in Fields(s)}

\* the text of the entry k, a pair that has one, as resolve_field returns it
EntryText(lang_tree, k) == strip_comments(xpath(lang_tree, k[1], k[2])[1].text)

\* the text of the entry k is nothing but a field that names k
NamesItself(lang_tree, k) ==
    /\ Fields(EntryText(lang_tree, k)) = {1}
    /\ match_field(EntryText(lang_tree, k), 1).end = Len(EntryText(lang_tree, k))
    /\ Keys(EntryText(lang_tree, k)) = {k}

\* the pairs the entry k refers to; with own, an entry that is nothing but
\* its own field counts as referring to nothing
Refers(lang_tree, k, own) ==
    IF xpath(lang_tree, k[1], k[2]) = <<>> THEN {}
    ELSE IF EntryText(lang_tree, k) = TypeError THEN {}
    ELSE IF own /\ NamesItself(lang_tree, k) THEN {}
    ELSE Keys(EntryText(lang_tree, k))

RECURSIVE Reach(_, _, _)
\* the pairs reachable from the pairs S by references
Reach(lang_tree, S, own) ==
    IF UNION {Refers(lang_tree, k, own) : k \in S} \subseteq S THEN S
    ELSE Reach(lang_tree, S \cup UNION {Refers(lang_tree, k, own) : k \in S}, own)

\* some entry reachable from the fields of s refers back to itself
Cyclic(lang_tree, s, own) ==
    \E k \in Reach(lang_tree, Keys(s), own) :
        k \in Reach(lang_tree, Refers(lang_tree, k, own), own)

\* every brace of s is part of a field
WholeFields(s) ==
    \A p \in 1..Len(s) :
        s[p] \in {"{", "}"} =>
            \E i \in Fields(s) : i <= p /\ p <= match_field(s, i).end

\* the template s and the texts of the entries reachable from it hold no
\* pieces of fields, so that no pass puts a field together
WholeRefs(lang_tree, s) ==
    /\ WholeFields(s)
    /\ \A k \in Reach(lang_tree, Keys(s), FALSE) :
          \/ xpath(lang_tree, k[1], k[2]) = <<>>
          \/ EntryText(lang_tree, k) = TypeError
          \/ WholeFields(EntryText(lang_tree, k))

\* the calls of the model by tree and template: those whose references
\* hold a cycle, those that hold one other than entries that are nothing but
\* their own field, and those without pieces of fields
Calls == {EnTree, DeTree} \X Templates
CyclicCalls == {c \in Calls : Cyclic(c[1], c[2], FALSE)}
LoopingCalls == {c \in Calls : Cyclic(c[1], c[2], TRUE)}
WholeCalls == {c \in Calls : WholeRefs(c[1], c[2])}

\* the templates that reach, in EnTree, a cycle of entries that keeps
\* changing the text
LoopingTemplates == {CycleTemplate, GrowTemplate, CycleNoTextTemplate}

\* the classes of calls, computed from the references, are: a cycle for the
\* looping templates and the entry that names itself, all in EnTree, and
\* pieces of fields for PiecesTemplate only
Classes ==
    /\ CyclicCalls = {EnTree} \X (LoopingTemplates \cup {SelfTemplate})
    /\ LoopingCalls = {EnTree} \X LoopingTemplates
    /\ Calls \ WholeCalls = {EnTree, DeTree} \X {PiecesTemplate}

\* the running call is over EnTree with one of the templates T
RunningIn(T) ==
    lg_pc = "resolving" /\ rs.lang_tree = EnTree /\ lg_res.template \in T

\* a call is running, and it is not over EnTree with one of the templates T
RunningOut(T) == lg_pc = "resolving" /\ ~RunningIn(T)

\* 'a{10,99}bAlpha'
MissingResult ==
    <<"a", "{", "1", "0", ",", "9", "9", "}", "b", "A", "l", "p", "h", "a">>

\* the fields of the template without an entry are in the returned text as
\* they were written
C24_Kept ==
    ReturnsValue =>
        \A i \in Missing(rs.lang_tree, lg_res'.template) :
            Occurs(FieldText(lg_res'.template, i), lg_res'.text)

\* no field with an entry is left to substitute in the text that is returned
C24_Substituted ==
    ReturnsValue => sub_fields(rs.lang_tree, rs.text_new, 1) = rs.text_new

\* a running call whose template has a field without an entry, over whole
\* fields without a cycle
C24_Running ==
    /\ RunningOut(LoopingTemplates \cup {SelfTemplate})
    /\ lg_res.template # PiecesTemplate
    /\ Missing(rs.lang_tree, lg_res.template) # {}

\* C24: a field without an entry is kept verbatim in the returned text and
\* does not stop the call: the call ends, and when it returns no field that
\* has an entry is left unsubstituted.
C24_MissingKept ==
    /\ Classes
    /\ [][C24_Kept]_vars
    /\ [][C24_Substituted]_vars
    /\ (C24_Running ~> lg_pc = "idle")

\* the call with a missing and a present field has returned
C24_Witness ==
    /\ lg_res.op = "resolve_string"
    /\ lg_res.ret = "value"
    /\ lg_res.template = MissingTemplate
    /\ lg_res.text = MissingResult

\* the characters of t at the positions K, in their order
Pick(t, K) ==
    [n \in 1..Cardinality(K) |->
        t[CHOOSE p \in K : Cardinality({q \in K : q <= p}) = n]]

\* the texts resolve_field looks up for the fields of s
LookedUp(lang_tree, s) ==
    {xpath(lang_tree, k[1], k[2])[1].text :
        k \in {h \in Keys(s) : xpath(lang_tree, h[1], h[2]) # <<>>}} \ {NoneText}

\* the parentheses of t that a backslash precedes
Escaped(t) == {p \in 2..Len(t) : t[p] \in {"(", ")"} /\ t[p - 1] = "\\"}

\* the positions of t between an escaped "(" and a later escaped ")"
Between(t) ==
    {k \in 1..Len(t) : \E p, q \in Escaped(t) :
        t[p] = "(" /\ t[q] = ")" /\ p < k /\ k < q}

\* the positions of t that comment stripping removes
Removed(t) ==
    {k \in 1..Len(t) : \E i \in 1..k : match_comment(t, i) >= k}

\* the backslashes of t that prefix a character: those with an even number of
\* backslashes right before them and a character after them
Prefixing(t) ==
    {p \in 1..(Len(t) - 1) :
        /\ t[p] = "\\"
        /\ Cardinality({q \in 1..(p - 1) : \A n \in q..(p - 1) : t[n] = "\\"}) % 2 = 0}

\* the text without the backslashes at the positions D, stripped if asked
Without(t, D, do_strip) ==
    IF do_strip THEN strip(Pick(t, (1..Len(t)) \ D))
    ELSE Pick(t, (1..Len(t)) \ D)

\* 'A(B)'
EscapedResult == <<"A", "(", "B", ")">>

\* the text of the statement resolves as the statement says
C23_Example ==
    ReturnsValue /\ lg_res'.template = EscapedTemplate /\ rs.lang_tree = EnTree
        => lg_res'.text = EscapedResult

\* C23: escaped parentheses survive: of a looked-up text comment stripping
\* removes no escaped parenthesis and nothing between two escaped
\* parentheses, the returned text is the resolved one without the backslash
\* of each backslash-prefixed character, and the looked-up text 'A\(B\)'
\* resolves to 'A(B)'.
C23_AlwaysSurvive ==
    /\ [](lg_pc = "resolving" =>
            \A t \in LookedUp(rs.lang_tree, rs.text_new) :
                Removed(t) \cap (Escaped(t) \cup Between(t)) = {})
    /\ [][ReturnsValue =>
            lg_res'.text
                = Without(rs.text_new, Prefixing(rs.text_new), lg_res'.strip)]_vars
    /\ [][C23_Example]_vars

\* 'a(b\)c)d' was looked up and resolved to 'ad': the escaped parenthesis
\* went with the comment around it
C23_Witness ==
    /\ lg_res.op = "resolve_string"
    /\ lg_res.ret = "value"
    /\ lg_res.template = InsideTemplate
    /\ lg_res.text = <<"a", "d">>

\* a pass that does not end the call hands its text to the next test, and the
\* call returns exactly when a pass has left the text as it was
C26_FixedPoint ==
    /\ lg_pc = "resolving" /\ lg_pc' = "resolving" /\ rs' # rs =>
          /\ rs'.text_old = rs.text_new
          /\ rs'.text_new = sub_fields(rs.lang_tree, rs.text_new, 1)
    /\ ReturnsValue =>
          /\ rs.text_new = rs.text_old
          /\ sub_fields(rs.lang_tree, rs.text_new, 1) = rs.text_new

\* a running call over EnTree with one of the templates T does not return a
\* value, and no pass of it equals the one before
Loops(T) ==
    RunningIn(T) =>
        /\ lg_res'.ret # "value"
        /\ lg_pc' = "resolving" => rs'.text_new # rs'.text_old

\* the statement as it stands: a call ends when the references reachable
\* from its template hold no cycle, and every cycle of references keeps the
\* call from returning
C26_EveryCycleLoops ==
    /\ Classes
    /\ [][C26_FixedPoint]_vars
    /\ [][Loops(LoopingTemplates \cup {SelfTemplate})]_vars
    /\ (RunningOut(LoopingTemplates \cup {SelfTemplate}) ~> lg_pc = "idle")

\* C26: substitution is repeated until a pass changes nothing, however deep
\* the references go; a call ends when its template and the texts reachable
\* from it hold whole fields only and no cycle of references other than
\* entries that are nothing but their own field; over any other cycle the
\* call never returns a value and every pass differs from the one before.
C26_Iterated ==
    /\ Classes
    /\ [][C26_FixedPoint]_vars
    /\ [][Loops(LoopingTemplates)]_vars
    /\ (RunningOut(LoopingTemplates) /\ lg_res.template # PiecesTemplate
            ~> lg_pc = "idle")

\* a call over two entries that refer to each other is back at its template
\* after two passes and still running
C26_Witness ==
    /\ lg_pc = "resolving"
    /\ lg_res.template = CycleTemplate
    /\ rs.lang_tree = EnTree
    /\ rs.text_new = CycleTemplate
    /\ rs.text_old # NoneText

============================================================================
